---- MODULE Spec2Model ----
(***************************************************************************)
(* Verification model of the knowledge-graph application:                  *)
(*   - the session-scoped graph store and its adapter (populate_Graph.py,  *)
(*     graph_utils.py),                                                    *)
(*   - the question-answering pipeline (tools.py),                         *)
(*   - the ingestion flow (extract_graph.py, app.py).                      *)
(* A Python string is modelled as the sequence of its characters, so that *)
(* substring tests, case folding and regular expressions are computed.    *)
(***************************************************************************)
EXTENDS Bags, FiniteSets, Integers, Sequences, TLC

VARIABLES
    nodes,      \* bag of Entity nodes  [name, session_id]
    edges,      \* bag of RELATION edges [src, dst, type, session_id]
    storeUp,    \* TRUE while the Neo4j server is reachable
    last,       \* the last adapter call: its name, arguments and result
    qa,         \* the query_graph call in progress: position, locals, result
    ingest,     \* the last ingestion run: its documents and what it collected
    call        \* the last call of a function of its own: arguments and result

storeVars == <<nodes, edges, storeUp, last>>

----------------------------------------------------------------------------
(* Bounds *)

\* longest triple list handed to one populate_neo4j call
MaxTriples == 2

\* most triples the chunks of one document yield
MaxExtracted == 4

\* most documents in one upload batch
MaxBatch == 2

\* most records in a response of the language model
MaxRecords == 2

\* most chunks of a document
MaxChunks == 3

\* most rows of a drawn query result
MaxRows == 3

\* most runs of the app script in a browser session
MaxRuns == 4

----------------------------------------------------------------------------
(* Values *)

\* Python None (also what Cypher sees as null)
None == "None"

\* session ids; app.py creates them with uuid4
Sessions == {"A", "B"}

SessionArgs == Sessions \cup {None}

\* entity mentions; "Tau" and "tau" are different entities for MERGE
n_tau == <<"t", "a", "u">>

n_Tau == <<"T", "a", "u">>

n_app == <<"A", "P", "P">>

Names == {n_tau, n_Tau, n_app}

r_binds == <<"b", "i", "n", "d", "s">>

r_inhibits == <<"i", "n", "h", "i", "b", "i", "t", "s">>

RelTypes == {r_binds, r_inhibits}

Triple(h, r, t) == [head |-> h, relation |-> r, tail |-> t]

\* the triples a triples file may hold
TripleUniverse ==
    { Triple(n_tau, r_binds, n_app),
      Triple(n_tau, r_inhibits, n_app),
      Triple(n_Tau, r_binds, n_tau) }

\* a JSON row that is not a map (a bare string)
StrRow(s) == [str |-> s]

IsMap(row) == DOMAIN row = {"head", "relation", "tail"}

Node(n, sid) == [name |-> n, session_id |-> sid]

Edge(s, d, ty, sid) == [src |-> s, dst |-> d, type |-> ty, session_id |-> sid]

SeqsUpTo(S, n) == UNION { [1..k -> S] : k \in 0..n }

----------------------------------------------------------------------------
(* Python strings as character sequences *)

LowerLetters == <<"a", "b", "c", "d", "e", "f", "g", "h", "i", "j", "k", "l", "m", "n", "o", "p", "q", "r", "s", "t", "u", "v", "w", "x", "y", "z">>

UpperLetters == <<"A", "B", "C", "D", "E", "F", "G", "H", "I", "J", "K", "L", "M", "N", "O", "P", "Q", "R", "S", "T", "U", "V", "W", "X", "Y", "Z">>

LowerSet == { LowerLetters[i] : i \in 1..26 }

UpperSet == { UpperLetters[i] : i \in 1..26 }

DigitSet == {"0", "1", "2", "3", "4", "5", "6", "7", "8", "9"}

\* str.lower() of one character
LowerMap ==
    [ c \in UpperSet |-> LowerLetters[CHOOSE i \in 1..26 : UpperLetters[i] = c] ]

\* str.lower()
lower(s) == [ i \in 1..Len(s) |-> IF s[i] \in UpperSet THEN LowerMap[s[i]] ELSE s[i] ]

\* regex \w
IsWord(c) == c \in LowerSet \cup UpperSet \cup DigitSet \cup {"_"}

\* regex \s
IsSpace(c) == c \in {" ", "\n", "\t"}

\* regex [a-zA-Z]
IsLetter(c) == c \in LowerSet \cup UpperSet

\* s[i:i+len(p)] == p  (i is 1-based)
StartsAt(s, i, p) ==
    /\ i >= 1
    /\ i + Len(p) - 1 <= Len(s)
    /\ \A k \in 1..Len(p) : s[i + k - 1] = p[k]

\* Python: p in s
Contains(s, p) == \E i \in 1..(Len(s) - Len(p) + 1) : StartsAt(s, i, p)

\* number of leading whitespace characters of s
LeadSpaces(s) ==
    CHOOSE n \in 0..Len(s) :
        /\ \A k \in 1..n : IsSpace(s[k])
        /\ (n < Len(s) => ~IsSpace(s[n + 1]))

\* number of trailing whitespace characters of s
TrailSpaces(s) ==
    CHOOSE n \in 0..Len(s) :
        /\ \A k \in 1..n : IsSpace(s[Len(s) - k + 1])
        /\ (n < Len(s) => ~IsSpace(s[Len(s) - n]))

\* str.strip()
strip(s) ==
    IF LeadSpaces(s) = Len(s) THEN <<>>
    ELSE SubSeq(s, LeadSpaces(s) + 1, Len(s) - TrailSpaces(s))

\* Python truthiness of a string or None
NonEmpty(s) == s # None /\ s # <<>>

\* end (exclusive) of the longest run of word characters starting at i
WordEnd(s, i) ==
    CHOOSE j \in i..(Len(s) + 1) :
        /\ \A k \in i..(j - 1) : IsWord(s[k])
        /\ (j <= Len(s) => ~IsWord(s[j]))

\* end (exclusive) of the longest run of whitespace starting at i
SpaceEnd(s, i) ==
    CHOOSE j \in i..(Len(s) + 1) :
        /\ \A k \in i..(j - 1) : IsSpace(s[k])
        /\ (j <= Len(s) => ~IsSpace(s[j]))

\* end (exclusive) of the longest run of ASCII letters starting at i
LetterEnd(s, i) ==
    CHOOSE j \in i..(Len(s) + 1) :
        /\ \A k \in i..(j - 1) : IsLetter(s[k])
        /\ (j <= Len(s) => ~IsLetter(s[j]))

Quotes == {"'", "\""}

\* end (exclusive) of the longest run of non-quote characters starting at i
NoQuoteEnd(s, i) ==
    CHOOSE j \in i..(Len(s) + 1) :
        /\ \A k \in i..(j - 1) : s[k] \notin Quotes
        /\ (j <= Len(s) => s[j] \in Quotes)

\* leftmost position j >= i where the pattern Ok matches, 0 if none:
\* hits is the set of positions where it matches
FirstFrom(hits, i) ==
    IF \E j \in hits : j >= i
    THEN CHOOSE j \in hits : j >= i /\ \A k \in hits : k >= i => j <= k
    ELSE 0

----------------------------------------------------------------------------
(* The store: Cypher semantics of the statements the code issues *)

Truthy(sid) == sid # None

\* (mutant) CREATE instead of MERGE: a node per row, matched or not
MergeNode_Create(ns, n) == ns (+) SetToBag({n})

\* MERGE (x:Entity {name: .., session_id: ..}): create only if no match
MergeNode(ns, n) ==
    IF BagIn(n, ns) THEN ns ELSE ns (+) SetToBag({n})

\* (mutant) the relationship is matched on its endpoints alone
MergeEdge_AnyType(es, h, t, ty, sid) ==
    LET match == { e \in BagToSet(es) : e.src = h /\ e.dst = t }
    IN  IF match = {} THEN es (+) SetToBag({Edge(h, t, ty, sid)}) ELSE es

\* MERGE (h)-[r:RELATION {type: ..}]->(t) followed by SET r.session_id:
\* the edge is matched on its endpoints and type only, then stamped
MergeEdge(es, h, t, ty, sid) ==
    LET match == { e \in BagToSet(es) : e.src = h /\ e.dst = t /\ e.type = ty }
        kept  == [ e \in BagToSet(es) \ match |-> es[e] ]
    IN  IF match = {}
        THEN es (+) SetToBag({Edge(h, t, ty, sid)})
        ELSE kept (+) [ e \in {Edge(h, t, ty, sid)} |->
                          BagCardinality([ m \in match |-> es[m] ]) ]

\* (mutant) the tail is merged on its name alone, without session_id
ImportRow_TailByName(st, row, sid) ==
    LET h  == Node(row.head, sid)
        same == { n \in BagToSet(st.nodes) : n.name = row.tail }
        t  == IF same = {} THEN Node(row.tail, None) ELSE CHOOSE n \in same : TRUE
        ns == MergeNode(MergeNode(st.nodes, h), t)
    IN  [nodes |-> ns, edges |-> MergeEdge(st.edges, h, t, row.relation, sid)]

\* one row of UNWIND $triples AS row
ImportRow(st, row, sid) ==
    LET h  == Node(row.head, sid)
        t  == Node(row.tail, sid)
        ns == MergeNode(MergeNode(st.nodes, h), t)
    IN  [nodes |-> ns, edges |-> MergeEdge(st.edges, h, t, row.relation, sid)]

RECURSIVE ImportRows(_, _, _)
ImportRows(st, rows, sid) ==
    IF rows = <<>> THEN st
    ELSE ImportRows(ImportRow(st, Head(rows), sid), Tail(rows), sid)

\* IMPORT_QUERY as one auto-commit statement: it fails as a whole (nothing
\* written) when a row is not a map or when $session_id is null, because
\* MERGE rejects a null property value
IMPORT_QUERY(st, rows, sid) ==
    IF sid = None \/ \E i \in 1..Len(rows) : ~IsMap(rows[i])
    THEN [ok |-> FALSE, nodes |-> st.nodes, edges |-> st.edges]
    ELSE [ok |-> TRUE] @@ ImportRows(st, rows, sid)

\* (mutant) the check of an empty list is missing
populate_neo4j_NoEmptyCheck(st, up, exists, data, sid) ==
    IF ~exists THEN [success |-> FALSE, count |-> 0, st |-> st]
    ELSE IF ~up THEN [success |-> FALSE, count |-> 0, st |-> st]
    ELSE LET r == IMPORT_QUERY(st, data, sid)
         IN  IF r.ok
             THEN [success |-> TRUE, count |-> Len(data),
                   st |-> [nodes |-> r.nodes, edges |-> r.edges]]
             ELSE [success |-> FALSE, count |-> 0, st |-> st]

\* populate_neo4j: (success, count); every exception after the file check is
\* caught and returned as (False, message, 0)
populate_neo4j(st, up, exists, data, sid) ==
    IF ~exists THEN [success |-> FALSE, count |-> 0, st |-> st]
    ELSE IF ~up THEN [success |-> FALSE, count |-> 0, st |-> st]
    ELSE IF data = <<>> THEN [success |-> FALSE, count |-> 0, st |-> st]
    ELSE LET r == IMPORT_QUERY(st, data, sid)
         IN  IF r.ok
             THEN [success |-> TRUE, count |-> Len(data),
                   st |-> [nodes |-> r.nodes, edges |-> r.edges]]
             ELSE [success |-> FALSE, count |-> 0, st |-> st]

\* (mutant) the WHERE clause is missing: every node matches
ClearMatch_All(n, sid) == TRUE

\* MATCH (n) [WHERE n.session_id = $session_id]
ClearMatch(n, sid) == IF Truthy(sid) THEN n.session_id = sid ELSE TRUE

\* (mutant) only nodes that start a relationship are matched for deletion
DetachDelete_Sources(st, sid) ==
    LET Gone(n) == /\ ClearMatch(n, sid)
                   /\ \E e \in BagToSet(st.edges) : e.src = n
        keepN == { n \in BagToSet(st.nodes) : ~Gone(n) }
        keepE == { e \in BagToSet(st.edges) : ~Gone(e.src) /\ ~Gone(e.dst) }
    IN  [nodes |-> [ n \in keepN |-> st.nodes[n] ],
         edges |-> [ e \in keepE |-> st.edges[e] ]]

\* DETACH DELETE n: the node and every relationship attached to it
DetachDelete(st, sid) ==
    LET keepN == { n \in BagToSet(st.nodes) : ~ClearMatch(n, sid) }
        keepE == { e \in BagToSet(st.edges) :
                     ~ClearMatch(e.src, sid) /\ ~ClearMatch(e.dst, sid) }
    IN  [nodes |-> [ n \in keepN |-> st.nodes[n] ],
         edges |-> [ e \in keepE |-> st.edges[e] ]]

\* (mutant) without a session id nothing is deleted
clear_database_SessionOnly(st, up, sid) ==
    IF up THEN [ret |-> TRUE,
                st |-> IF Truthy(sid) THEN DetachDelete(st, sid) ELSE st]
    ELSE [ret |-> FALSE, st |-> st]

\* clear_database: True, or False when the store call raised
clear_database(st, up, sid) ==
    IF up THEN [ret |-> TRUE, st |-> DetachDelete(st, sid)]
    ELSE [ret |-> FALSE, st |-> st]

\* count(..) over the matched elements S of bag b
BagCount(b, S) == BagCardinality([ x \in S |-> b[x] ])

\* MATCH (n:Entity)-[r:RELATION]->(m:Entity) with the session predicate of
\* get_graph_stats / get_graph_sample on both endpoints
ScopedEdge(e, sid) ==
    IF Truthy(sid)
    THEN e.src.session_id = sid /\ e.dst.session_id = sid
    ELSE TRUE

ScopedNode(n, sid) == IF Truthy(sid) THEN n.session_id = sid ELSE TRUE

\* get_graph_stats with a reachable store
get_graph_stats(st, sid) ==
    LET ns == { n \in BagToSet(st.nodes) : ScopedNode(n, sid) }
        es == { e \in BagToSet(st.edges) : ScopedEdge(e, sid) }
    IN  [nodes |-> BagCount(st.nodes, ns),
         relationships |-> BagCount(st.edges, es),
         relation_types |->
            { [rel_type |-> ty,
               count |-> BagCount(st.edges, { e \in es : e.type = ty })] :
              ty \in { e.type : e \in es } }]

Store == [nodes |-> nodes, edges |-> edges]

----------------------------------------------------------------------------
(* Cypher texts: the queries a model or a caller writes, and what the     *)
(* store answers to them                                                   *)

v_n == <<"n">>

v_p == <<"p">>

v_ent == <<"e", "n", "t">>

\* variable names a generated query may give its first node
QueryVars == {v_n, v_p, v_ent, n_tau, n_Tau}

\* the abstract syntax of one query: shape "name" matches the edges at a
\* named entity, shape "all" every edge; ref is the variable the WHERE
\* clause mentions, scope how the session is restricted
QueryForms ==
    [shape : {"name"}, var : QueryVars, ref : QueryVars, label : BOOLEAN,
     quote : Quotes, value : {n_tau, n_Tau}, relvar : {<<>>, <<"r">>},
     typed : BOOLEAN, scope : {"none", "literal", "param"}, sid : Sessions]
    \cup
    [shape : {"all"}, scope : {"none", "literal", "param"}, sid : Sessions]

\* the WHERE clause of a query
ScopeText(a, b, scope, sid) ==
    CASE scope = "none" -> <<>>
      [] scope = "literal" ->
            <<" ", "W", "H", "E", "R", "E", " ">> \o a \o <<".", "s", "e", "s", "s", "i", "o", "n", "_", "i", "d", " ", "=", " ", "'">> \o <<sid>> \o <<"'", " ", "A", "N", "D", " ">> \o b
                \o <<".", "s", "e", "s", "s", "i", "o", "n", "_", "i", "d", " ", "=", " ", "'">> \o <<sid>> \o <<"'">>
      [] scope = "param" ->
            <<" ", "W", "H", "E", "R", "E", " ">> \o a \o <<".", "s", "e", "s", "s", "i", "o", "n", "_", "i", "d", " ", "=", " ", "$", "s", "e", "s", "s", "i", "o", "n", "_", "i", "d">> \o <<" ", "A", "N", "D", " ">> \o b \o <<".", "s", "e", "s", "s", "i", "o", "n", "_", "i", "d", " ", "=", " ", "$", "s", "e", "s", "s", "i", "o", "n", "_", "i", "d">>

\* the text of a query of the family
QueryText(f) ==
    IF f.shape = "all"
    THEN <<"M", "A", "T", "C", "H", " ", "(", "h", ":", "E", "n", "t", "i", "t", "y", ")", "-", "[", "r", ":", "R", "E", "L", "A", "T", "I", "O", "N", "]", "-", ">", "(", "t", ":", "E", "n", "t", "i", "t", "y", ")">> \o ScopeText(<<"h">>, <<"t">>, f.scope, f.sid) \o <<" ", "R", "E", "T", "U", "R", "N", " ", "h", ".", "n", "a", "m", "e", " ", "a", "s", " ", "h", "e", "a", "d", ",", " ", "r", ".", "t", "y", "p", "e", " ", "a", "s", " ", "r", "e", "l", "a", "t", "i", "o", "n", ",", " ", "t", ".", "n", "a", "m", "e", " ", "a", "s", " ", "t", "a", "i", "l">>
    ELSE <<"M", "A", "T", "C", "H", " ", "(">> \o f.var \o (IF f.label THEN <<":", "E", "n", "t", "i", "t", "y">> ELSE <<>>)
            \o <<" ", "{", "n", "a", "m", "e", ":", " ">> \o <<f.quote>> \o f.value \o <<f.quote>> \o <<"}", ")", "-", "[">>
            \o f.relvar \o (IF f.typed THEN <<":", "R", "E", "L", "A", "T", "I", "O", "N">> ELSE <<>>)
            \o <<"]", "-", "(", "m", ":", "E", "n", "t", "i", "t", "y", ")">> \o ScopeText(f.ref, <<"m">>, f.scope, f.sid)
            \o <<" ", "R", "E", "T", "U", "R", "N", " ", "m", ".", "n", "a", "m", "e">>

\* the forms whose variables the rewrite can produce: the WHERE variable is
\* the one the author wrote, the node variable is it or the rewrite's n
ParsedForms ==
    { f \in QueryForms : f.shape = "name" => f.var \in {f.ref, v_n} }

\* parsing: the form a text denotes
FormOfText == [ t \in { QueryText(f) : f \in ParsedForms } |->
                  CHOOSE f \in ParsedForms : QueryText(f) = t ]

\* the rows the store matches for a form, each with the nodes it came from;
\* (n)-[r]-(m) is undirected, (h)-[r]->(t) directed
FormRows(f, st, param) ==
    LET InScope(a, b) ==
            CASE f.scope = "none" -> TRUE
              [] f.scope = "literal" -> a.session_id = f.sid /\ b.session_id = f.sid
              [] f.scope = "param" -> a.session_id = param /\ b.session_id = param
        es == BagToSet(st.edges)
    IN  IF f.shape = "all"
        THEN { [n |-> e.src, m |-> e.dst, type |-> e.type] :
                 e \in { x \in es : InScope(x.src, x.dst) } }
        ELSE { [n |-> e.src, m |-> e.dst, type |-> e.type] :
                 e \in { x \in es : x.src.name = f.value /\ InScope(x.src, x.dst) } }
             \cup
             { [n |-> e.dst, m |-> e.src, type |-> e.type] :
                 e \in { x \in es : x.dst.name = f.value /\ InScope(x.src, x.dst) } }

\* session.run(text, **params).data(): an error when the store is down, the
\* text uses a variable that is not bound or a parameter that is not passed
RunQuery(text, st, up, param) ==
    IF ~up \/ text \notin DOMAIN FormOfText THEN [err |-> TRUE, rows |-> {}]
    ELSE LET f == FormOfText[text]
         IN  IF \/ f.scope = "param" /\ param = None
                \/ f.shape = "name" /\ f.scope # "none" /\ f.ref # f.var
             THEN [err |-> TRUE, rows |-> {}]
             ELSE [err |-> FALSE, rows |-> FormRows(f, st, param)]

----------------------------------------------------------------------------
(* tools.py: fix_cypher_query, the rule-based query rewrite *)

s_nameprop == <<"{", "n", "a", "m", "e", ":">>

\* re: \((\w+)\s*\{name:\s*['"]([^'"]+)['"]\}\)   matched at position i:
\* the positions after the variable, the blanks, the opening quote's blanks
\* and the value
NodePatternAt(q, i) ==
    LET w == WordEnd(q, i + 1)
        b == SpaceEnd(q, w)
        c == SpaceEnd(q, b + Len(s_nameprop))
        v == NoQuoteEnd(q, c + 1)
    IN  [var |-> SubSeq(q, i + 1, w - 1),
         value |-> SubSeq(q, c + 1, v - 1),
         end |-> v + 3]

NodePatternOk(q, i) ==
    /\ q[i] = "("
    /\ LET w == WordEnd(q, i + 1)
           b == SpaceEnd(q, w)
           c == SpaceEnd(q, b + Len(s_nameprop))
           v == NoQuoteEnd(q, c + 1)
       IN  /\ w > i + 1
           /\ StartsAt(q, b, s_nameprop)
           /\ c <= Len(q) /\ q[c] \in Quotes
           /\ v > c + 1
           /\ v <= Len(q) /\ q[v] \in Quotes
           /\ StartsAt(q, v + 1, <<"}", ")">>)

\* fix_node_pattern: the replacement for one match of the node pattern
fix_node_pattern(var_name, prop_value, whole) ==
    IF var_name # <<>> /\ var_name[1] # "_" /\ Len(var_name) > 2
    THEN IF lower(var_name) = lower(prop_value) \/ var_name[1] \in UpperSet
         THEN <<"(", "n", ":", "E", "n", "t", "i", "t", "y", " ", "{", "n", "a", "m", "e", ":", " ", "\"">> \o prop_value \o <<"\"", "}", ")">>
         ELSE <<"(">> \o var_name \o <<":", "E", "n", "t", "i", "t", "y", " ", "{", "n", "a", "m", "e", ":", " ", "\"">> \o prop_value \o <<"\"", "}", ")">>
    ELSE whole

\* re.sub of the node pattern over q[i..]: leftmost non-overlapping matches
RECURSIVE SubNodePattern(_, _)
SubNodePattern(q, i) ==
    LET j == FirstFrom({ k \in 1..Len(q) : NodePatternOk(q, k) }, i)
        m == NodePatternAt(q, j)
    IN  IF j = 0 THEN SubSeq(q, i, Len(q))
        ELSE SubSeq(q, i, j - 1)
                \o fix_node_pattern(m.var, m.value, SubSeq(q, j, m.end - 1))
                \o SubNodePattern(q, m.end)

\* re: \[(\w*)\]   matched at position i
RelPatternAt(q, i) ==
    [var |-> SubSeq(q, i + 1, WordEnd(q, i + 1) - 1),
     end |-> WordEnd(q, i + 1) + 1]

RelPatternOk(q, i) ==
    /\ q[i] = "["
    /\ WordEnd(q, i + 1) <= Len(q)
    /\ q[WordEnd(q, i + 1)] = "]"

\* (mutant) the relationship rule leaves the bracket and adds a typed one
fix_rel_pattern_Beside(var_name) ==
    <<"[">> \o var_name \o <<"]", "[", ":", "R", "E", "L", "A", "T", "I", "O", "N", "]">>

\* the lambda of the relationship rule: [] -> [r:RELATION], [v] -> [v:RELATION]
fix_rel_pattern(var_name) ==
    <<"[">> \o (IF var_name = <<>> THEN <<"r">> ELSE var_name) \o <<":", "R", "E", "L", "A", "T", "I", "O", "N", "]">>

RECURSIVE SubRelPattern(_, _)
SubRelPattern(q, i) ==
    LET j == FirstFrom({ k \in 1..Len(q) : RelPatternOk(q, k) }, i)
        m == RelPatternAt(q, j)
    IN  IF j = 0 THEN SubSeq(q, i, Len(q))
        ELSE SubSeq(q, i, j - 1) \o fix_rel_pattern(m.var)
                \o SubRelPattern(q, m.end)

\* re: \(([a-zA-Z_]\w*)\s*\{name:   matched at position i
NamePropAt(q, i) ==
    [var |-> SubSeq(q, i + 1, WordEnd(q, i + 1) - 1),
     end |-> SpaceEnd(q, WordEnd(q, i + 1)) + Len(s_nameprop)]

NamePropOk(q, i) ==
    /\ q[i] = "("
    /\ i + 1 <= Len(q)
    /\ (IsLetter(q[i + 1]) \/ q[i + 1] = "_")
    /\ StartsAt(q, SpaceEnd(q, WordEnd(q, i + 1)), s_nameprop)

\* the replacement (\1:Entity {name:
fix_name_prop(var_name) == <<"(">> \o var_name \o <<":", "E", "n", "t", "i", "t", "y", " ", "{", "n", "a", "m", "e", ":">>

RECURSIVE SubNameProp(_, _)
SubNameProp(q, i) ==
    LET j == FirstFrom({ k \in 1..Len(q) : NamePropOk(q, k) }, i)
        m == NamePropAt(q, j)
    IN  IF j = 0 THEN SubSeq(q, i, Len(q))
        ELSE SubSeq(q, i, j - 1) \o fix_name_prop(m.var)
                \o SubNameProp(q, m.end)

\* fix_cypher_query
fix_cypher_query(query) ==
    IF ~NonEmpty(query) THEN query
    ELSE SubNameProp(SubRelPattern(SubNodePattern(query, 1), 1), 1)

----------------------------------------------------------------------------
(* tools.py: try_direct_query, the question-pattern fallback *)

LowerEnd(s, i) ==
    CHOOSE j \in i..(Len(s) + 1) :
        /\ \A k \in i..(j - 1) : s[k] \in LowerSet
        /\ (j <= Len(s) => s[j] \notin LowerSet)

LetterSpaceEnd(s, i) ==
    CHOOSE j \in i..(Len(s) + 1) :
        /\ \A k \in i..(j - 1) : IsLetter(s[k]) \/ IsSpace(s[k])
        /\ (j <= Len(s) => ~(IsLetter(s[j]) \/ IsSpace(s[j])))

Prepositions == { <<"w", "i", "t", "h">>, <<"t", "o">>, <<"a", "n", "d">> }

\* re: (?:with|to|and)\s+([a-zA-Z]+), IGNORECASE, matched at position i:
\* the position where the captured letters start, 0 if no match
PrepositionAt(q, i) ==
    LET kws == { kw \in Prepositions : StartsAt(lower(q), i, kw) }
        kw == CHOOSE k \in kws : TRUE
        j == i + Len(kw)
        k == SpaceEnd(q, j)
    IN  IF kws # {} /\ k > j /\ k <= Len(q) /\ IsLetter(q[k]) THEN k ELSE 0

\* re.search of the preposition pattern: match.group(1), or None
interact_entity(q) ==
    LET i == FirstFrom({ k \in 1..Len(q) : PrepositionAt(q, k) # 0 }, 1)
        g == PrepositionAt(q, i)
    IN  IF i = 0 THEN None ELSE SubSeq(q, g, LetterEnd(q, g) - 1)

AboutPhrases == { <<"w", "h", "a", "t", " ", "i", "s">>, <<"t", "e", "l", "l", " ", "m", "e", " ", "a", "b", "o", "u", "t">>, <<"w", "h", "a", "t", " ", "a", "r", "e">> }

\* re: (?:what is|tell me about|what are)\s+([a-zA-Z\s]+) matched at i on
\* the lowered question: the end (exclusive) of the match, 0 if no match
AboutAt(ql, i) ==
    LET kws == { kw \in AboutPhrases : StartsAt(ql, i, kw) }
        kw == CHOOSE k \in kws : TRUE
        j == i + Len(kw)
        r == LetterSpaceEnd(ql, j)
    IN  IF kws # {} /\ j <= Len(ql) /\ IsSpace(ql[j]) /\ r - j >= 2 THEN r ELSE 0

\* match.group(1).strip() of the about pattern, or None
about_entity(ql) ==
    LET i == FirstFrom({ k \in 1..Len(ql) : AboutAt(ql, k) # 0 }, 1)
        kw == CHOOSE k \in AboutPhrases : StartsAt(ql, i, k)
    IN  IF i = 0 THEN None
        ELSE strip(SubSeq(ql, i + Len(kw), AboutAt(ql, i) - 1))

\* regex \b at position i (between s[i-1] and s[i])
Boundary(s, i) ==
    (i > 1 /\ i - 1 <= Len(s) /\ IsWord(s[i - 1])) # (i <= Len(s) /\ IsWord(s[i]))

\* ends (exclusive) of [A-Z][a-z]+(?:\s+[A-Z][a-z]+)* continued from end e
RECURSIVE CapEnds(_, _)
CapEnds(q, e) ==
    LET s == SpaceEnd(q, e)
        l == LowerEnd(q, s + 1)
    IN  IF s > e /\ s <= Len(q) /\ q[s] \in UpperSet /\ l > s + 1
        THEN {e} \cup CapEnds(q, l)
        ELSE {e}

\* re: \b([A-Z][a-z]+(?:\s+[A-Z][a-z]+)*)\b matched at i: the end
\* (exclusive) of the longest match, 0 if no match
CapitalizedAt(q, i) ==
    LET ends == { e \in CapEnds(q, LowerEnd(q, i + 1)) : Boundary(q, e) }
    IN  IF /\ q[i] \in UpperSet
           /\ Boundary(q, i)
           /\ LowerEnd(q, i + 1) > i + 1
           /\ ends # {}
        THEN CHOOSE e \in ends : \A f \in ends : f <= e
        ELSE 0

\* re.findall of the capitalised-phrase pattern over q[i..]
RECURSIVE FindCapitalized(_, _)
FindCapitalized(q, i) ==
    LET j == FirstFrom({ k \in 1..Len(q) : CapitalizedAt(q, k) # 0 }, i)
    IN  IF j = 0 THEN <<>>
        ELSE <<SubSeq(q, j, CapitalizedAt(q, j) - 1)>>
                \o FindCapitalized(q, CapitalizedAt(q, j))

\* re: ["']([^"']+)["'] matched at i: the end (exclusive), 0 if no match
QuotedAt(q, i) ==
    LET v == NoQuoteEnd(q, i + 1)
    IN  IF q[i] \in Quotes /\ v > i + 1 /\ v <= Len(q) THEN v + 1 ELSE 0

RECURSIVE FindQuoted(_, _)
FindQuoted(q, i) ==
    LET j == FirstFrom({ k \in 1..Len(q) : QuotedAt(q, k) # 0 }, i)
    IN  IF j = 0 THEN <<>>
        ELSE <<SubSeq(q, j + 1, QuotedAt(q, j) - 2)>>
                \o FindQuoted(q, QuotedAt(q, j))

\* potential_entities[:3]
potential_entities(q) ==
    LET all == FindCapitalized(q, 1) \o FindQuoted(q, 1)
    IN  SubSeq(all, 1, IF Len(all) < 3 THEN Len(all) ELSE 3)

s_interact == <<"i", "n", "t", "e", "r", "a", "c", "t">>

\* the store searches try_direct_query makes for a question, in order: each
\* is one try block with the entity text it passes as $entity
direct_plan(q) ==
    LET ql == lower(q)
        p1 == IF Contains(ql, s_interact) /\ interact_entity(q) # None
              THEN <<[kind |-> "interact", entity |-> interact_entity(q)]>>
              ELSE <<>>
        p2 == IF (\E kw \in AboutPhrases : Contains(ql, kw)) /\ about_entity(ql) # None
              THEN <<[kind |-> "about", entity |-> about_entity(ql)]>>
              ELSE <<>>
        pe == potential_entities(q)
        p3 == SelectSeq([ i \in 1..Len(pe) |-> [kind |-> "generic", entity |-> pe[i]] ],
                        LAMBDA b : Len(b.entity) > 2)
    IN  p1 \o p2 \o p3

\* both orientations of (e1:Entity)-[r:RELATION]-(e2:Entity) under the
\* session predicate on e1 and e2
UndirectedRows(st, sid) ==
    LET es == { e \in BagToSet(st.edges) : ScopedEdge(e, sid) }
    IN  { [n |-> e.src, m |-> e.dst, type |-> e.type] : e \in es }
        \cup { [n |-> e.dst, m |-> e.src, type |-> e.type] : e \in es }

\* WHERE (toLower(e1.name) = toLower($entity) OR toLower(e2.name) = ..)
interact_exact(st, entity, sid) ==
    { r \in UndirectedRows(st, sid) :
        lower(r.n.name) = lower(entity) \/ lower(r.m.name) = lower(entity) }

\* WHERE (toLower(e1.name) CONTAINS toLower($entity) OR ..)
interact_contains(st, entity, sid) ==
    { r \in UndirectedRows(st, sid) :
        \/ Contains(lower(r.n.name), lower(entity))
        \/ Contains(lower(r.m.name), lower(entity)) }

\* WHERE toLower(e.name) CONTAINS toLower($entity)
entity_search(st, entity, sid) ==
    { r \in UndirectedRows(st, sid) : Contains(lower(r.n.name), lower(entity)) }

\* one try block of try_direct_query against a reachable store: the rows
\* it found and the number of store queries it ran
direct_block(b, st, sid) ==
    IF b.kind = "interact"
    THEN IF interact_exact(st, b.entity, sid) # {}
         THEN [rows |-> interact_exact(st, b.entity, sid), queries |-> 1]
         ELSE [rows |-> interact_contains(st, b.entity, sid), queries |-> 2]
    ELSE [rows |-> entity_search(st, b.entity, sid), queries |-> 1]

----------------------------------------------------------------------------
(* tools.py: generate_answer_from_results and GraphTools.query_graph *)

a_empty == <<>>

a_blank == <<" ">>

a_idk == <<"I", " ", "d", "o", "n", "'", "t", " ", "k", "n", "o", "w", " ", "t", "h", "e", " ", "a", "n", "s", "w", "e", "r", ".">>

a_cannot == <<"I", " ", "c", "a", "n", "n", "o", "t", " ", "a", "n", "s", "w", "e", "r", " ", "t", "h", "a", "t", ".">>

a_good == <<"T", "a", "u", " ", "b", "i", "n", "d", "s", " ", "A", "P", "P", ".">>

\* an answer that holds "don't know" without the "i " before it
a_unknown == <<"W", "h", "y", " ", "T", "a", "u", " ", "b", "i", "n", "d", "s", " ", "A", "P", "P", ",", " ", "w", "e", " ", "d", "o", "n", "'", "t", " ", "k", "n", "o", "w", ".">>

\* texts the answering model may produce
AnswerTexts == {a_empty, a_blank, a_idk, a_cannot, a_good, a_unknown}

q_interact == <<"W", "h", "a", "t", " ", "p", "r", "o", "t", "e", "i", "n", "s", " ", "i", "n", "t", "e", "r", "a", "c", "t", " ", "w", "i", "t", "h", " ", "t", "a", "u", "?">>

q_about == <<"w", "h", "a", "t", " ", "i", "s", " ", "T", "a", "u">>

q_plain == <<"l", "i", "s", "t", " ", "e", "v", "e", "r", "y", "t", "h", "i", "n", "g">>

q_many == <<"D", "o", "e", "s", " ", "Z", "e", "d", " ", "i", "n", "t", "e", "r", "a", "c", "t", " ", "w", "i", "t", "h", " ", "K", "i", "p", "?">>

\* questions a user may ask
Questions == {q_interact, q_about, q_plain, q_many}

\* (mutant) a fallback that also searches the question's first five words
DirectPlans_Words ==
    [ q \in Questions |->
        direct_plan(q) \o [ i \in 1..5 |-> [kind |-> "generic", entity |-> q] ] ]

DirectPlans == [ q \in Questions |-> direct_plan(q) ]

\* the phrases that make a chain answer unsatisfactory
Blacklist == { <<"i", " ", "d", "o", "n", "'", "t", " ", "k", "n", "o", "w">>, <<"i", " ", "d", "o", " ", "n", "o", "t", " ", "k", "n", "o", "w">>, <<"c", "a", "n", "n", "o", "t", " ", "a", "n", "s", "w", "e", "r">>, <<"n", "o", " ", "i", "n", "f", "o", "r", "m", "a", "t", "i", "o", "n">>, <<"u", "n", "a", "b", "l", "e", " ", "t", "o">>, <<"n", "o", " ", "r", "e", "s", "u", "l", "t", "s">> }

\* the phrases of the final check
FinalPhrases == { <<"d", "o", "n", "'", "t", " ", "k", "n", "o", "w">>, <<"n", "o", " ", "i", "n", "f", "o", "r", "m", "a", "t", "i", "o", "n">> }

s_dontknow == <<"d", "o", "n", "'", "t", " ", "k", "n", "o", "w">>

\* line 175: any(phrase in answer_lower ...) or not answer
Unsatisfactory(answer) ==
    \/ ~NonEmpty(answer)
    \/ \E p \in Blacklist : Contains(lower(answer), p)

\* the formatter of generate_answer_from_results (lines 432-466): every
\* branch returns a non-empty text that begins with "Found"; the text is
\* kept to that prefix
format_results(question, results) == <<"F", "o", "u", "n", "d">>

\* what llm.invoke does for the summary prompt: a text, or an exception
SummaryOutcomes ==
    { [raise |-> FALSE, text |-> t] : t \in {a_good, a_idk, a_empty} }
    \cup { [raise |-> TRUE, text |-> <<>>] }

\* the None that generate_answer_from_results and try_direct_query return
NoAnswer == [text |-> <<>>, rows |-> {}, by |-> "none"]

\* generate_answer_from_results: None for no rows, else the model's text
\* or, when the model call fails, the formatted rows
generate_answer_from_results(question, results, llm) ==
    IF results = {} THEN NoAnswer
    ELSE IF ~llm.raise THEN [text |-> llm.text, rows |-> results, by |-> "llm"]
    ELSE [text |-> format_results(question, results), rows |-> results,
          by |-> "formatter"]

\* Python truthiness of what generate_answer_from_results returned
HasAnswer(a) == a.by # "none" /\ a.text # <<>>

\* the prompt of the k-th invocation format: the schema-annotated question
\* (its fixed template text contains none of the tested phrases), then the
\* bare question twice
PromptText(k, question) ==
    IF k = 1 THEN <<"Q", "u", "e", "s", "t", "i", "o", "n", ":", " ">> \o question ELSE question

\* the query forms the chain's model may write for a prompt.  Only the
\* schema-annotated prompt tells it the session id, and it then writes the
\* filter it is told to write; for the bare question it cannot
GeneratedForms(k, sid) ==
    { f \in ParsedForms :
        /\ f.shape = "name"
        /\ f.var \in {v_n, v_p, n_tau}
        /\ f.var = f.ref
        /\ f.value = n_tau
        /\ f.quote = "'"
        /\ f.label = (f.var = v_n)
        /\ f.typed = (f.var = v_n)
        /\ f.relvar = (IF f.var = v_n THEN <<"r">> ELSE <<>>)
        /\ \/ f.scope = "none" /\ f.sid = "A" /\ (k > 1 \/ ~Truthy(sid))
           \/ f.scope = "literal" /\ k = 1 /\ f.sid = sid }

\* what cypher_chain.invoke may do: raise (rate limit or other error), or
\* return a dict with the answer, the generated query and its rows, or a
\* plain string (the old response format, which does not show the query
\* that was run)
ChainOutcomes(k, sid, st, up) ==
    { [kind |-> "raise", error |-> e] : e \in {"quota", "other"} }
    \cup
    { [kind |-> "dict", result |-> a, query |-> QueryText(f),
       context |-> RunQuery(QueryText(f), st, up, None).rows] :
         <<a, f>> \in AnswerTexts
                      \X { g \in GeneratedForms(k, sid) :
                             ~RunQuery(QueryText(g), st, up, None).err } }
    \cup
    { [kind |-> "str", result |-> a, query |-> <<>>,
       context |-> RunQuery(QueryText(f), st, up, None).rows] :
         <<a, f>> \in {a_idk, a_good, a_empty}
                      \X { g \in GeneratedForms(k, sid) :
                             /\ g.var = v_n
                             /\ ~RunQuery(QueryText(g), st, up, None).err } }

\* str(result) of a dict result
str_result(prompt, r) ==
    <<"{", "'", "q", "u", "e", "r", "y", "'", ":", " ", "'">> \o prompt \o <<"'", ",", " ", "'", "r", "e", "s", "u", "l", "t", "'", ":", " ", "'">> \o r.result \o <<"'", ",", " ", "'", "i", "n", "t", "e", "r", "m", "e", "d", "i", "a", "t", "e", "_", "s", "t", "e", "p", "s", "'", ":", " ", "[", "{", "'", "q", "u", "e", "r", "y", "'", ":", " ", "'">> \o r.query \o <<"'", "}", "]", "}">>

NoRet == [msg |-> "none"]

\* no chain result yet
NoResult == [kind |-> "none"]

QAIdle ==
    [pc |-> "idle", question |-> <<>>, session_id |-> None, attempt |-> 0,
     format |-> 1, result |-> NoResult, answer |-> <<>>, fixed |-> <<>>,
     site |-> 0, block |-> 1, repairs |-> 0, directs |-> 0, queries |-> 0,
     maxqueries |-> 0, ret |-> NoRet,
     returned |-> [site |-> 0, answered |-> FALSE, queries |-> 0],
     unreachable |-> FALSE, invokes |-> 0, retries |-> <<>>]

\* return of query_graph: what is returned, its text, the rows it was made
\* from and the step that produced it
Return(q, msg, text, rows, from) ==
    [q EXCEPT !.pc = "done",
              !.ret = [msg |-> msg, text |-> text, rows |-> rows, from |-> from]]

\* a call of try_direct_query from line 198, 207 or 217
BeginDirect(q, site) ==
    [q EXCEPT !.pc = "direct", !.site = site, !.block = 1,
              !.directs = @ + 1, !.queries = 0]

\* lines 202-212: the empty answer becomes str(result); the final check
FinalCheck(q) ==
    LET blank == ~NonEmpty(q.answer) \/ strip(q.answer) = <<>>
        answer == IF blank
                  THEN str_result(PromptText(q.format, q.question), q.result)
                  ELSE q.answer
    IN  IF \/ ~NonEmpty(answer)
           \/ \E p \in FinalPhrases : Contains(lower(answer), p)
        THEN BeginDirect([q EXCEPT !.answer = answer], 207)
        ELSE Return(q, "answer", answer, q.result.context,
                    IF blank THEN "str_result" ELSE "chain")

\* lines 169-221: what follows a returned chain result up to the next call
AfterInvoke(q, r) ==
    LET q1 == [q EXCEPT !.result = r, !.answer = r.result]
    IN  IF r.kind = "str"
        THEN IF ~NonEmpty(r.result) \/ Contains(lower(r.result), s_dontknow)
             THEN BeginDirect(q1, 217)
             ELSE Return(q1, "answer", r.result, r.context, "chain")
        ELSE IF Unsatisfactory(r.result)
             THEN IF fix_cypher_query(r.query) # r.query
                  THEN [q1 EXCEPT !.pc = "repair",
                                  !.fixed = fix_cypher_query(r.query)]
                  ELSE BeginDirect(q1, 198)
             ELSE FinalCheck(q1)

\* max_retries of query_graph
query_max_retries == 3

\* base_delay of query_graph
query_base_delay == 5

\* (mutant) the handler retries after any exception
AfterException_RetryAll(q, error) ==
    IF q.attempt < query_max_retries - 1
    THEN [q EXCEPT !.pc = "count", !.attempt = @ + 1, !.format = 1,
                   !.retries = Append(@, [error |-> error,
                                          delay |-> query_base_delay * 2^q.attempt])]
    ELSE Return(q, "rate_limit", <<>>, {}, "handler")

\* lines 222-234: the handler of an exception of the attempt; qa.retries
\* lists the errors retried, each with the delay slept before the retry
AfterException(q, error) ==
    IF error = "quota"
    THEN IF q.attempt < query_max_retries - 1
         THEN [q EXCEPT !.pc = "count", !.attempt = @ + 1, !.format = 1,
                        !.retries = Append(@, [error |-> error,
                                               delay |-> query_base_delay * 2^q.attempt])]
         ELSE Return(q, "rate_limit", <<>>, {}, "handler")
    ELSE Return(q, "error", <<>>, {}, "handler")

\* what follows the value try_direct_query returned to its call site
AfterDirect(q, answer) ==
    LET q1 == [q EXCEPT !.maxqueries = IF q.queries > @ THEN q.queries ELSE @,
                        !.returned = [site |-> q.site,
                                      answered |-> HasAnswer(answer),
                                      queries |-> q.queries]]
    IN  IF HasAnswer(answer)
        THEN Return(q1, "answer", answer.text, answer.rows, "direct")
        ELSE IF q.site = 198 THEN FinalCheck(q1)
        ELSE Return(q1, "not_found", <<>>, {}, "direct")

----------------------------------------------------------------------------
(* Initial state and adapter actions *)

NoCall == [op |-> "none"]

StoreInit ==
    /\ nodes = EmptyBag
    /\ edges = EmptyBag
    /\ storeUp = TRUE
    /\ last = NoCall

\* a caller runs populate_neo4j on a triples file
Populate(data, sid, exists) ==
    LET r == populate_neo4j(Store, storeUp, exists, data, sid)
    IN  /\ nodes' = r.st.nodes
        /\ edges' = r.st.edges
        /\ last' = [op |-> "populate_neo4j", session_id |-> sid, data |-> data,
                    exists |-> exists, up |-> storeUp,
                    success |-> r.success, count |-> r.count,
                    changed |-> (r.st # Store),
                    repeat |-> /\ last.op = "populate_neo4j"
                               /\ last.success
                               /\ last.data = data
                               /\ last.session_id = sid]
        /\ UNCHANGED <<storeUp, qa, ingest, call>>

Clear(sid) ==
    LET r == clear_database(Store, storeUp, sid)
    IN  /\ nodes' = r.st.nodes
        /\ edges' = r.st.edges
        /\ last' = [op |-> "clear_database", session_id |-> sid, ret |-> r.ret,
                    before |-> get_graph_stats(Store, sid).nodes]
        /\ UNCHANGED <<storeUp, qa, ingest, call>>

\* the Neo4j server becomes unreachable, or reachable again
Connectivity ==
    /\ storeUp' = ~storeUp
    /\ last' = [op |-> "connectivity"]
    /\ UNCHANGED <<nodes, edges, qa, ingest, call>>

\* LIMIT k: any k of the matched rows, all of them when there are fewer
Limited(rows, k) ==
    IF Cardinality(rows) <= k THEN {rows}
    ELSE { s \in SUBSET rows : Cardinality(s) = k }

EdgeRow(e) == [n |-> e.src, m |-> e.dst, type |-> e.type]

\* get_graph_sample: MATCH (h:Entity)-[r:RELATION]->(t:Entity) [WHERE ..]
get_graph_sample(st, sid) ==
    { EdgeRow(e) : e \in { x \in BagToSet(st.edges) : ScopedEdge(x, sid) } }

\* the other end of relationship e seen from node a
OtherEnd(e, a) == IF e.src = a THEN e.dst ELSE e.src

\* paths of exactly d relationships from start, no relationship used twice;
\* each with its last node, the relationships and the nodes it passes
RECURSIVE PathsOfLength(_, _, _)
PathsOfLength(st, start, d) ==
    IF d = 0 THEN { [end |-> start, used |-> {}, via |-> {start}] }
    ELSE { [end |-> OtherEnd(pe[2], pe[1].end),
            used |-> pe[1].used \cup {pe[2]},
            via |-> pe[1].via \cup {OtherEnd(pe[2], pe[1].end)}] :
             pe \in { x \in PathsOfLength(st, start, d - 1) \X BagToSet(st.edges) :
                        /\ x[2] \notin x[1].used
                        /\ (x[2].src = x[1].end \/ x[2].dst = x[1].end) } }

\* get_entity_connections: MATCH path = (start:Entity {name: $entity_name})
\* -[*1..depth]-(connected:Entity) WHERE start.name <> connected.name [AND ..]
get_entity_connections(st, entity_name, depth, sid) ==
    UNION { { [n |-> start, m |-> p.end, distance |-> d, via |-> p.via] :
                p \in { x \in PathsOfLength(st, start, d) :
                          /\ start.name # x.end.name
                          /\ ScopedNode(start, sid)
                          /\ ScopedNode(x.end, sid) } } :
            <<start, d>> \in { n \in BagToSet(st.nodes) : n.name = entity_name }
                               \X (1..depth) }

\* what the caller sees of a connection row: DISTINCT connected.name, distance
ConnectionRow(r) == [entity |-> r.m.name, distance |-> r.distance]

\* query texts handed to query_graph_cypher: the Full Graph view of app.py
\* interpolates a session id; other callers may write any text
RawQueries ==
    { QueryText(f) : f \in { g \in QueryForms : g.shape = "all" } }
    \cup
    { QueryText(f) : f \in { g \in ParsedForms :
          g.shape = "name" /\ g.var = v_n /\ g.ref = v_n /\ g.label /\ g.typed
          /\ g.quote = "'" /\ g.relvar = <<"r">> /\ g.value = n_tau
          /\ g.scope = "none" } }

\* query_graph_cypher: session_id is passed as a parameter only
query_graph_cypher(query, st, up, sid) ==
    RunQuery(query, st, up, IF Truthy(sid) THEN sid ELSE None)

ReadOps == {"get_graph_stats", "get_graph_sample", "get_entity_connections",
            "query_graph_cypher"}

Read(op, sid, raised, rows) ==
    /\ last' = [op |-> op, session_id |-> sid, raised |-> raised, rows |-> rows]
    /\ UNCHANGED <<nodes, edges, storeUp, qa, ingest, call>>

\* get_graph_stats raises when the store is unreachable (try/finally only)
GetStats(sid) ==
    /\ last' = [op |-> "get_graph_stats", session_id |-> sid,
                raised |-> ~storeUp,
                rows |-> IF storeUp THEN get_graph_sample(Store, sid) ELSE {},
                stats |-> IF storeUp THEN get_graph_stats(Store, sid) ELSE None]
    /\ UNCHANGED <<nodes, edges, storeUp, qa, ingest, call>>

GetSample(limit, sid) ==
    IF storeUp
    THEN \E rows \in Limited(get_graph_sample(Store, sid), limit) :
            Read("get_graph_sample", sid, FALSE, rows)
    ELSE Read("get_graph_sample", sid, TRUE, {})

GetConnections(entity_name, depth, limit, sid) ==
    IF storeUp
    THEN \E rows \in Limited(get_entity_connections(Store, entity_name, depth, sid),
                             limit) :
            Read("get_entity_connections", sid, FALSE, rows)
    ELSE Read("get_entity_connections", sid, TRUE, {})

RunRaw(query, sid) ==
    LET r == query_graph_cypher(query, Store, storeUp, sid)
    IN  Read("query_graph_cypher", sid, r.err, r.rows)

\* LIMIT values the callers pass (the default and a small one)
Limits == {1, 100}

\* depth values of get_entity_connections (the default and 1)
Depths == {1, 2}

ReadNext ==
    \/ \E sid \in SessionArgs : GetStats(sid)
    \/ \E limit \in Limits, sid \in SessionArgs : GetSample(limit, sid)
    \/ \E name \in Names, depth \in Depths, limit \in Limits, sid \in SessionArgs :
          GetConnections(name, depth, limit, sid)
    \/ \E query \in RawQueries, sid \in SessionArgs : RunRaw(query, sid)

\* a missing triples file has no content to read
StoreNext ==
    \/ \E data \in SeqsUpTo(TripleUniverse, MaxTriples), sid \in SessionArgs :
          Populate(data, sid, TRUE)
    \/ \E sid \in SessionArgs : Populate(<<>>, sid, FALSE)
    \/ \E sid \in SessionArgs : Clear(sid)
    \/ Connectivity
    \/ ReadNext

\* no ingestion has run yet
NoIngest == [op |-> "none"]

\* no function has been called yet
NoPure == [op |-> "none"]

vars == <<nodes, edges, storeUp, last, qa, ingest, call>>

Init == StoreInit /\ qa = QAIdle /\ ingest = NoIngest /\ call = NoPure

Next == StoreNext

Spec == Init /\ [][Next]_vars

----------------------------------------------------------------------------
(* The question-answering pipeline, step by step *)

\* query_graph is called: the session id is read from the ambient
\* st.session_state (None when that read fails)
QStart(question, sid) ==
    /\ qa.pc \in {"idle", "done"}
    /\ qa' = [QAIdle EXCEPT !.pc = "count", !.question = question,
                            !.session_id = sid]
    /\ last' = [op |-> "query_graph"]
    /\ UNCHANGED <<nodes, edges, storeUp, ingest, call>>

\* lines 126-137: the node count of the session; a failing count is ignored
\* (qa.unreachable records that a store query of this call failed to connect)
QCount ==
    /\ qa.pc = "count"
    /\ qa' = IF storeUp /\ get_graph_stats(Store, qa.session_id).nodes = 0
             THEN Return(qa, "empty_graph", <<>>, {}, "count")
             ELSE [qa EXCEPT !.pc = "invoke", !.unreachable = @ \/ ~storeUp]
    /\ UNCHANGED <<storeVars, ingest, call>>

\* lines 159-166: one cypher_chain.invoke (counted in qa.invokes); the first
\* two formats swallow any exception and fall to the next format
QInvoke ==
    /\ qa.pc = "invoke"
    /\ \E o \in ChainOutcomes(qa.format, qa.session_id, Store, storeUp) :
          LET q == [qa EXCEPT !.invokes = @ + 1]
          IN  qa' = IF o.kind = "raise"
                    THEN IF qa.format < 3
                         THEN [q EXCEPT !.format = @ + 1]
                         ELSE AfterException(q, o.error)
                    ELSE AfterInvoke(q, o)
    /\ UNCHANGED <<storeVars, ingest, call>>

\* lines 185-195: the rewritten query is run; rows are summarised
QRepair ==
    /\ qa.pc = "repair"
    /\ LET r == RunQuery(qa.fixed, Store, storeUp, None)
           q1 == [qa EXCEPT !.repairs = @ + 1, !.unreachable = @ \/ ~storeUp]
       IN  IF r.err \/ r.rows = {}
           THEN qa' = BeginDirect(q1, 198)
           ELSE \E llm \in SummaryOutcomes :
                  LET a == generate_answer_from_results(qa.question, r.rows, llm)
                  IN  qa' = IF HasAnswer(a)
                            THEN Return(q1, "answer", a.text, a.rows, "repair")
                            ELSE BeginDirect([q1 EXCEPT !.answer = a.text], 198)
    /\ UNCHANGED <<storeVars, ingest, call>>

\* one try block of try_direct_query, or its return None after the last
QDirect ==
    /\ qa.pc = "direct"
    /\ LET plan == DirectPlans[qa.question]
       IN  IF qa.block > Len(plan) THEN qa' = AfterDirect(qa, NoAnswer)
           ELSE IF ~storeUp
           THEN qa' = [qa EXCEPT !.block = @ + 1, !.queries = @ + 1,
                                 !.unreachable = TRUE]
           ELSE LET b == direct_block(plan[qa.block], Store, qa.session_id)
                    q1 == [qa EXCEPT !.queries = @ + b.queries]
                IN  IF b.rows = {}
                    THEN qa' = [q1 EXCEPT !.block = @ + 1]
                    ELSE \E llm \in SummaryOutcomes :
                           qa' = AfterDirect(q1,
                                   generate_answer_from_results(qa.question,
                                                                b.rows, llm))
    /\ UNCHANGED <<storeVars, ingest, call>>

QANext == QCount \/ QInvoke \/ QRepair \/ QDirect
             \/ \E question \in Questions, sid \in {"A", None} :
                   QStart(question, sid)

\* the triples file ingested before questions are asked
QAData == <<Triple(n_tau, r_binds, n_app), Triple(n_Tau, r_binds, n_tau)>>

\* a session ingests its documents before the questions are asked
QAPopulate(sid) == qa.pc = "idle" /\ Populate(QAData, sid, TRUE)

\* a session clears its graph before the questions are asked
QAClear(sid) == qa.pc = "idle" /\ Clear(sid)

\* connectivity changes at any time
QAEnvNext ==
    \/ \E sid \in Sessions : QAPopulate(sid)
    \/ \E sid \in Sessions : QAClear(sid)
    \/ Connectivity

QAPipelineNext == QANext \/ QAEnvNext

SpecQA == Init /\ [][QAPipelineNext]_vars

----------------------------------------------------------------------------
(* Ingestion: extract_graph.process_pdf_file and its two callers *)

\* the order in which the extractor finds the triples of a document
ExtractionOrder ==
    <<Triple(n_tau, r_binds, n_app), Triple(n_tau, r_inhibits, n_app),
      Triple(n_Tau, r_binds, n_tau)>>

\* the triples the chunks of a document yield, n in all
Extracted(n) ==
    [ i \in 1..n |-> ExtractionOrder[((i - 1) % Len(ExtractionOrder)) + 1] ]

\* a document: too little text (a scanned PDF), a read that raises, or text
\* whose chunks yield some triples (none when every chunk fails)
Documents ==
    { [kind |-> "short", triples |-> <<>>], [kind |-> "raises", triples |-> <<>>] }
    \cup { [kind |-> "text", triples |-> Extracted(n)] : n \in 0..MaxExtracted }

\* process_pdf_file: the list all_triples; [] for short text and on exception
process_pdf_file(doc) == IF doc.kind = "text" THEN doc.triples ELSE <<>>

\* the keys of a triple dict (t.dict() and the added 'source'), in order
TripleKeys ==
    <<StrRow("head"), StrRow("relation"), StrRow("tail"), StrRow("source")>>

\* app.py lines 288-328, one document of the loop:
\*   file_triples, domain, summary = process_pdf_file(...)
\*   all_triples.extend(file_triples)
\* the unpacking raises ValueError unless the list has 3 items; with 3 the
\* names are bound to the three triple dicts and extend() adds dict keys
upload_document(doc) ==
    LET ret == process_pdf_file(doc)
    IN  IF Len(ret) # 3
        THEN [raised |-> TRUE, added |-> <<>>]
        ELSE [raised |-> FALSE, added |-> TripleKeys]

\* extract_graph.py lines 363-366, one document of the loop
main_document(doc) == [raised |-> FALSE, added |-> process_pdf_file(doc)]

RECURSIVE Concat(_)
\* list.extend over the documents in order
Concat(ss) == IF ss = <<>> THEN <<>> ELSE Head(ss) \o Concat(Tail(ss))

Batches == SeqsUpTo(Documents, MaxBatch) \ {<<>>}

\* the upload button of tab1: every document, then populate_neo4j when
\* anything was collected; `writes` counts the calls of populate_neo4j, each
\* of which runs IMPORT_QUERY once with the whole list
Upload(uploaded_files, sid) ==
    LET steps == [ i \in 1..Len(uploaded_files) |->
                     upload_document(uploaded_files[i]) ]
        all_triples == Concat([ i \in 1..Len(steps) |-> steps[i].added ])
        r == populate_neo4j(Store, storeUp, TRUE, all_triples, sid)
    IN  /\ nodes' = IF all_triples # <<>> THEN r.st.nodes ELSE nodes
        /\ edges' = IF all_triples # <<>> THEN r.st.edges ELSE edges
        /\ ingest' = [op |-> "upload", session_id |-> sid,
                      files |-> uploaded_files, steps |-> steps,
                      all_triples |-> all_triples,
                      writes |-> IF all_triples # <<>> THEN 1 ELSE 0,
                      saved |-> (all_triples # <<>> /\ r.success)]
        /\ last' = [op |-> "upload"]
        /\ UNCHANGED <<storeUp, qa, call>>

\* the script's main loop over the PDF folder, saved to the output file
ExtractMain(pdf_files) ==
    LET steps == [ i \in 1..Len(pdf_files) |-> main_document(pdf_files[i]) ]
    IN  /\ ingest' = [op |-> "main", session_id |-> None,
                      files |-> pdf_files, steps |-> steps,
                      all_triples |->
                          Concat([ i \in 1..Len(steps) |-> steps[i].added ]),
                      writes |-> 0, saved |-> TRUE]
        /\ last' = [op |-> "main"]
        /\ UNCHANGED <<nodes, edges, storeUp, qa, call>>

IngestNext ==
    \/ \E uploaded_files \in Batches, sid \in Sessions :
          Upload(uploaded_files, sid)
    \/ \E pdf_files \in Batches : ExtractMain(pdf_files)
    \/ Connectivity

SpecIngest == Init /\ [][IngestNext]_vars

----------------------------------------------------------------------------
(* fix_cypher_query applied to a query on its own *)

\* what a query may carry after its RETURN item; v is its last node variable
ReturnSuffixes(v) ==
    { <<>>, <<" ", "L", "I", "M", "I", "T", " ", "1", "0">>, <<",", " ", "l", "a", "b", "e", "l", "s", "(">> \o v \o <<")", "[", "0", "]">> }

\* the queries the rewrite is applied to, each with the form it was made of
FixInputs ==
    { [form |-> f, query |-> QueryText(f) \o s] :
        <<f, s>> \in
          ({ g \in QueryForms : /\ g.shape = "name" /\ g.var = g.ref
                               /\ g.value = n_tau /\ g.sid = "A" }
               \X ReturnSuffixes(<<"m">>))
          \cup
          ({ g \in QueryForms : g.shape = "all" /\ g.sid = "A" }
               \X ReturnSuffixes(<<"t">>)) }

\* an already-correct query: every node pattern is labelled :Entity and
\* every relationship pattern is typed :RELATION
AlreadyCorrect(f) == f.shape = "all" \/ (f.label /\ f.typed)

FixInit ==
    /\ StoreInit /\ qa = QAIdle /\ ingest = NoIngest
    /\ call \in { [op |-> "query"] @@ i : i \in FixInputs }

\* fix_cypher_query(query)
Fix ==
    /\ call.op = "query"
    /\ call' = [op |-> "fix_cypher_query", form |-> call.form,
                query |-> call.query, result |-> fix_cypher_query(call.query)]
    /\ UNCHANGED <<nodes, edges, storeUp, last, qa, ingest>>

\* the rewrite applied to its own result
FixAgain ==
    /\ call.op = "fix_cypher_query"
    /\ call' = [op |-> "fix_again", form |-> call.form,
                query |-> call.result, result |-> fix_cypher_query(call.result)]
    /\ UNCHANGED <<nodes, edges, storeUp, last, qa, ingest>>

FixNext == Fix \/ FixAgain

SpecFix == FixInit /\ [][FixNext]_vars

----------------------------------------------------------------------------
(* extract_graph.py: process_pdf_file and extract_triples, call by call *)

\* characters per chunk
CHUNK_SIZE == 15000

\* least stripped length of a document's text
MinTextLen == 100

\* least stripped length of a chunk
MinChunkLen == 50

\* a text, by its lengths: head blanks, then other characters, then tail
\* blanks; len characters in all
TextLens == {0, 60, 99, 100, 149, 15040, 15100, 30010}

BlankLens == {0, 1, 60}

Texts ==
    { t \in [len : TextLens, head : BlankLens, tail : BlankLens] :
        t.head + t.tail <= t.len }

\* len(text.strip())
StrippedLen(t) == t.len - t.head - t.tail

Clamp(x, hi) == IF x < 0 THEN 0 ELSE IF x > hi THEN hi ELSE x

\* raw_text[j:j+CHUNK_SIZE], j counted from 0
Slice(t, j) ==
    LET n == Clamp(t.len - j, CHUNK_SIZE)
        h == Clamp(t.head - j, n)
        e == Clamp((j + n) - (t.len - t.tail), n)
    IN  IF (t.len - t.tail) <= j \/ j + n <= t.head \/ t.head + t.tail = t.len
        THEN [len |-> n, head |-> n, tail |-> 0]
        ELSE [len |-> n, head |-> h, tail |-> e]

\* [raw_text[j:j+CHUNK_SIZE] for j in range(0, len(raw_text), CHUNK_SIZE)]
chunks(t) ==
    [ k \in 1..((t.len + CHUNK_SIZE - 1) \div CHUNK_SIZE) |->
        Slice(t, (k - 1) * CHUNK_SIZE) ]

\* how the language model behaves during one call of the extractor: it
\* answers with a triple array, answers with nothing usable, or raises
LlmOutcomes == {"triples", "nothing", "raises"}

\* detect_domain: the number of llm_general.invoke calls it makes (one, or
\* one per attempt when every attempt raises a rate-limit error)
detect_domain(llm) == [calls |-> IF llm = "raises" THEN 3 ELSE 1]

\* extract_triples: the triples it returns and the model calls it makes.
\* Only an exception makes it try again; the third failure returns empty
extract_triples(chunk, llm) ==
    IF chunk.len = 0 \/ StrippedLen(chunk) < MinChunkLen
    THEN [triples |-> <<>>, calls |-> 0]
    ELSE CASE llm = "triples" -> [triples |-> Extracted(2), calls |-> 1]
           [] llm = "nothing" -> [triples |-> <<>>, calls |-> 1]
           [] llm = "raises" -> [triples |-> <<>>, calls |-> 3]

RECURSIVE ExtractChunks(_, _)
\* the loop over the chunks: short chunks are skipped
ExtractChunks(cs, llm) ==
    IF cs = <<>> THEN [triples |-> <<>>, calls |-> 0]
    ELSE LET rest == ExtractChunks(Tail(cs), llm)
             this == IF StrippedLen(Head(cs)) < MinChunkLen
                     THEN [triples |-> <<>>, calls |-> 0]
                     ELSE extract_triples(Head(cs), llm)
         IN  [triples |-> this.triples \o rest.triples,
              calls |-> this.calls + rest.calls]

\* (mutant) the domain is detected before the length of the text is tested
process_pdf_text_DomainFirst(raw_text, llm) ==
    LET d == detect_domain(llm)
        r == ExtractChunks(chunks(raw_text), llm)
    IN  IF raw_text.len = 0 \/ StrippedLen(raw_text) < MinTextLen
        THEN [ret |-> <<>>, calls |-> d.calls]
        ELSE [ret |-> r.triples, calls |-> d.calls + r.calls]

\* process_pdf_file once read_pdf has returned raw_text: the list it
\* returns and the model calls made on the way
process_pdf_text(raw_text, llm) ==
    IF raw_text.len = 0 \/ StrippedLen(raw_text) < MinTextLen
    THEN [ret |-> <<>>, calls |-> 0]
    ELSE LET d == detect_domain(llm)
             r == ExtractChunks(chunks(raw_text), llm)
         IN  [ret |-> r.triples, calls |-> d.calls + r.calls]

ExtractInit ==
    /\ StoreInit /\ qa = QAIdle /\ ingest = NoIngest
    /\ call \in [op : {"text"}, text : Texts, llm : LlmOutcomes]

\* process_pdf_file on a PDF whose text is call.text
ProcessPdf ==
    /\ call.op = "text"
    /\ LET r == process_pdf_text(call.text, call.llm)
       IN  call' = [op |-> "process_pdf_file", text |-> call.text,
                    llm |-> call.llm, ret |-> r.ret, calls |-> r.calls]
    /\ UNCHANGED <<nodes, edges, storeUp, last, qa, ingest>>

\* extract_triples on a chunk call.text
ExtractTriples ==
    /\ call.op = "text"
    /\ call.text.len <= CHUNK_SIZE
    /\ LET r == extract_triples(call.text, call.llm)
       IN  call' = [op |-> "extract_triples", text |-> call.text,
                    llm |-> call.llm, ret |-> r.triples, calls |-> r.calls]
    /\ UNCHANGED <<nodes, edges, storeUp, last, qa, ingest>>

ExtractNext == ProcessPdf \/ ExtractTriples

SpecExtract == ExtractInit /\ [][ExtractNext]_vars

----------------------------------------------------------------------------
(* app.py: the start of the script, with the TTL cleanup it asks for *)

\* ages in hours of the stored nodes when a user session starts
AgeValues == {1, 25}

\* the store after one ingestion by an earlier session
EarlierStores ==
    { populate_neo4j([nodes |-> EmptyBag, edges |-> EmptyBag], TRUE, TRUE,
                     data, sid).st :
        data \in SeqsUpTo(TripleUniverse, MaxTriples) \ {<<>>}, sid \in Sessions }

StartInit ==
    /\ \E st \in EarlierStores : nodes = st.nodes /\ edges = st.edges
    /\ storeUp = TRUE /\ last = NoCall
    /\ qa = QAIdle /\ ingest = NoIngest
    /\ call \in { [op |-> "clock", age |-> a] :
                    a \in [BagToSet(nodes) -> AgeValues] }

\* the script runs: "from graph_utils import (..., cleanup_old_data)" raises
\* ImportError, because graph_utils defines no cleanup_old_data; the startup
\* block with clear_database and cleanup_old_data(hours=24) is never reached
AppStart ==
    /\ call.op = "clock"
    /\ call' = [op |-> "app_start", age |-> call.age, hours |-> 24,
                raised |-> "ImportError", deleted |-> 0]
    /\ UNCHANGED <<nodes, edges, storeUp, last, qa, ingest>>

\* a day passes before the user session starts
DayPasses ==
    /\ call.op = "clock"
    /\ \A n \in DOMAIN call.age : call.age[n] <= 25
    /\ call' = [call EXCEPT !.age = [ n \in DOMAIN call.age |-> call.age[n] + 24 ]]
    /\ UNCHANGED <<nodes, edges, storeUp, last, qa, ingest>>

StartNext == AppStart \/ DayPasses

SpecStart == StartInit /\ [][StartNext]_vars

----------------------------------------------------------------------------
(* Ingestion of an empty triple list: populate_neo4j and the upload flow *)

\* the content of the triples file: an empty list or one triple
TripleFiles == { <<>>, <<Triple(n_tau, r_binds, n_app)>> }

EmptyIngestNext ==
    \/ \E data \in TripleFiles, sid \in SessionArgs : Populate(data, sid, TRUE)
    \/ \E doc \in Documents, sid \in Sessions : Upload(<<doc>>, sid)
    \/ Connectivity

SpecEmptyIngest == Init /\ [][EmptyIngestNext]_vars

----------------------------------------------------------------------------
(* extract_triples: from the text of the model's response to the triples *)

\* the character at position i, "" beyond the end
CharAt(s, i) == IF i \in 1..Len(s) THEN s[i] ELSE ""

RECURSIVE RemoveFrom(_, _, _)
\* re.sub(p\s*, '', s) for a literal p, applied to s[i:]
RemoveFrom(s, p, i) ==
    LET j == FirstFrom({ k \in 1..Len(s) : StartsAt(s, k, p) }, i)
    IN  IF j = 0 THEN SubSeq(s, i, Len(s))
        ELSE SubSeq(s, i, j - 1) \o RemoveFrom(s, p, SpaceEnd(s, j + Len(p)))

\* the grave accent character, which a TLA+ string cannot hold
backtick == "U+0060"

fence_json == <<backtick, backtick, backtick, "j", "s", "o", "n">>

fence == <<backtick, backtick, backtick>>

\* lines 257-260: the two re.sub calls and strip()
clean_content(content) ==
    strip(RemoveFrom(RemoveFrom(content, fence_json, 1), fence, 1))

\* positions where \[\s*\{ matches
ArrayStarts(s) ==
    { i \in 1..Len(s) : s[i] = "[" /\ CharAt(s, SpaceEnd(s, i + 1)) = "{" }

\* positions where \}\s*\] matches
ArrayEnds(s) ==
    { k \in 1..Len(s) : s[k] = "}" /\ CharAt(s, SpaceEnd(s, k + 1)) = "]" }

\* re.search(r'\[\s*\{.*\}\s*\]', s, re.DOTALL).group(), <<>> without match:
\* from the leftmost start to the last end behind its brace
json_match(s) ==
    LET i  == FirstFrom(ArrayStarts(s), 1)
        ks == IF i = 0 THEN {}
              ELSE { k \in ArrayEnds(s) : k > SpaceEnd(s, i + 1) }
        k  == CHOOSE x \in ks : \A y \in ks : y <= x
    IN  IF ks = {} THEN <<>> ELSE SubSeq(s, i, SpaceEnd(s, k + 1))

\* lines 264-273: the match, else the whole content when it is bracketed,
\* else None (<<>>, equally falsy)
json_str(content) ==
    IF json_match(content) # <<>> THEN json_match(content)
    ELSE IF CharAt(content, 1) = "[" /\ CharAt(content, Len(content)) = "]"
         THEN content
         ELSE <<>>

\* (mutant) the trailing commas are left in place
DropCommaFrom_Keep(s, c, i) == SubSeq(s, i, Len(s))

RECURSIVE DropCommaFrom(_, _, _)
\* re.sub(r',\s*\]', ']', s) and re.sub(r',\s*\}', '}', s): c is the bracket
DropCommaFrom(s, c, i) ==
    LET j == FirstFrom({ k \in 1..Len(s) :
                           s[k] = "," /\ CharAt(s, SpaceEnd(s, k + 1)) = c }, i)
    IN  IF j = 0 THEN SubSeq(s, i, Len(s))
        ELSE SubSeq(s, i, j - 1) \o <<c>>
                \o DropCommaFrom(s, c, SpaceEnd(s, j + 1) + 1)

\* lines 278-279
fix_trailing_commas(s) == DropCommaFrom(DropCommaFrom(s, "]", 1), "}", 1)

\* json.JSONDecodeError
JsonError == [ok |-> FALSE]

\* a JSON string without escapes starting at p
ParseString(s, p) ==
    LET e == FirstFrom({ k \in 1..Len(s) : s[k] = "\"" }, p + 1)
    IN  IF CharAt(s, p) # "\"" \/ e = 0 THEN JsonError
        ELSE [ok |-> TRUE, val |-> SubSeq(s, p + 1, e - 1), next |-> e + 1]

RECURSIVE ParseMembers(_, _, _)
\* the members "key": "value" of an object from p on; a comma must be
\* followed by another member
ParseMembers(s, p, acc) ==
    LET k == ParseString(s, p)
        c == SpaceEnd(s, k.next)
        v == ParseString(s, SpaceEnd(s, c + 1))
        q == SpaceEnd(s, v.next)
        acc1 == Append(acc, <<k.val, v.val>>)
    IN  IF ~k.ok THEN JsonError
        ELSE IF CharAt(s, c) # ":" THEN JsonError
        ELSE IF ~v.ok THEN JsonError
        ELSE IF CharAt(s, q) = "}" THEN [ok |-> TRUE, val |-> acc1, next |-> q + 1]
        ELSE IF CharAt(s, q) = "," THEN ParseMembers(s, SpaceEnd(s, q + 1), acc1)
        ELSE JsonError

\* an object of string members starting at p
ParseObject(s, p) ==
    IF CharAt(s, p) # "{" THEN JsonError
    ELSE IF CharAt(s, SpaceEnd(s, p + 1)) = "}"
         THEN [ok |-> TRUE, val |-> <<>>, next |-> SpaceEnd(s, p + 1) + 1]
         ELSE ParseMembers(s, SpaceEnd(s, p + 1), <<>>)

RECURSIVE ParseElements(_, _, _)
\* the elements of an array from p on; a comma must be followed by another
ParseElements(s, p, acc) ==
    LET o == ParseObject(s, p)
        q == SpaceEnd(s, o.next)
        acc1 == Append(acc, o.val)
    IN  IF ~o.ok THEN JsonError
        ELSE IF CharAt(s, q) = "]" THEN [ok |-> TRUE, val |-> acc1, next |-> q + 1]
        ELSE IF CharAt(s, q) = "," THEN ParseElements(s, SpaceEnd(s, q + 1), acc1)
        ELSE JsonError

\* json.loads of a text holding an array of objects of strings: the list of
\* objects (each a list of key/value pairs), or the decode error
json_loads(s) ==
    LET p == SpaceEnd(s, 1)
        q == SpaceEnd(s, p + 1)
        r == IF CharAt(s, q) = "]"
             THEN [ok |-> TRUE, val |-> <<>>, next |-> q + 1]
             ELSE ParseElements(s, q, <<>>)
    IN  IF CharAt(s, p) # "[" THEN JsonError
        ELSE IF ~r.ok THEN JsonError
        ELSE IF SpaceEnd(s, r.next) # Len(s) + 1 THEN JsonError
        ELSE r

\* t.get(key, ''): the last member of that key wins
DictGet(t, key) ==
    LET ix == { i \in 1..Len(t) : t[i][1] = key }
    IN  IF ix = {} THEN <<>>
        ELSE t[CHOOSE i \in ix : \A j \in ix : j <= i][2]

k_head == <<"h", "e", "a", "d">>

k_relation == <<"r", "e", "l", "a", "t", "i", "o", "n">>

k_tail == <<"t", "a", "i", "l">>

\* lines 283-298: the triples of the dicts whose three fields are non-empty
triples_of(triples_data) ==
    LET all == [ i \in 1..Len(triples_data) |->
                   Triple(strip(DictGet(triples_data[i], k_head)),
                          strip(DictGet(triples_data[i], k_relation)),
                          strip(DictGet(triples_data[i], k_tail))) ]
        Full(t) == t.head # <<>> /\ t.relation # <<>> /\ t.tail # <<>>
    IN  SelectSeq(all, Full)

\* lines 251-336 on the first attempt: the triples returned for the content
\* of the model's response (none when no array is found or it fails to parse)
triples_from_response(content) ==
    LET c == clean_content(content)
        d == json_loads(fix_trailing_commas(json_str(c)))
    IN  IF json_str(c) = <<>> THEN <<>>
        ELSE IF ~d.ok THEN <<>>
        ELSE triples_of(d.val)

\* how a response is laid out: fenced or not, one line or indented lines,
\* with or without a comma after the last member and the last element
Fences == {"none", "json", "plain"}

Layouts == {"line", "lines"}

\* the text of one object
ObjectText(t, comma) ==
    <<"{", "\"", "h", "e", "a", "d", "\"", ":", " ", "\"">> \o t.head \o <<"\"", ",", " ", "\"", "r", "e", "l", "a", "t", "i", "o", "n", "\"", ":", " ", "\"">> \o t.relation \o <<"\"", ",", " ", "\"", "t", "a", "i", "l", "\"", ":", " ", "\"">> \o t.tail \o <<"\"">>
        \o (IF comma THEN <<",">> ELSE <<>>) \o <<"}">>

RECURSIVE ElementsText(_, _, _)
\* the elements, each on its own line in the "lines" layout
ElementsText(ts, comma, layout) ==
    LET nl == IF layout = "lines" THEN <<"\n", " ", " ">> ELSE <<>>
    IN  IF Len(ts) = 1 THEN nl \o ObjectText(ts[1], comma)
        ELSE nl \o ObjectText(ts[1], comma) \o <<",">>
                \o (IF layout = "lines" THEN <<>> ELSE <<" ">>)
                \o ElementsText(Tail(ts), comma, layout)

\* the text of the array
ArrayText(ts, objComma, arrComma, layout) ==
    <<"[">> \o ElementsText(ts, objComma, layout)
        \o (IF arrComma THEN <<",">> ELSE <<>>)
        \o (IF layout = "lines" THEN <<"\n">> ELSE <<>>) \o <<"]">>

\* the response: the array, inside a code fence or bare
ResponseText(ts, objComma, arrComma, layout, f) ==
    LET a == ArrayText(ts, objComma, arrComma, layout)
    IN  CASE f = "none"  -> a
          [] f = "json"  -> fence_json \o <<"\n">> \o a \o <<"\n">> \o fence
          [] f = "plain" -> fence \o <<"\n">> \o a \o <<"\n">> \o fence

\* the lists of triples a response denotes
DenotedLists == SeqsUpTo(TripleUniverse, MaxTriples) \ {<<>>}

ResponseInit ==
    /\ StoreInit /\ qa = QAIdle /\ ingest = NoIngest
    /\ \E ts \in DenotedLists, oc \in BOOLEAN, ac \in BOOLEAN,
          layout \in Layouts, f \in Fences :
          call = [op |-> "response", denoted |-> ts, fenced |-> f # "none",
                  comma |-> oc \/ ac,
                  content |-> ResponseText(ts, oc, ac, layout, f)]

\* extract_triples receives the response of llm_general.invoke
ParseResponse ==
    /\ call.op = "response"
    /\ call' = [op |-> "triples_from_response", denoted |-> call.denoted,
                fenced |-> call.fenced, comma |-> call.comma,
                content |-> call.content,
                ret |-> triples_from_response(call.content)]
    /\ UNCHANGED <<nodes, edges, storeUp, last, qa, ingest>>

ResponseNext == ParseResponse

SpecResponse == ResponseInit /\ [][ResponseNext]_vars

----------------------------------------------------------------------------
(* extract_triples attempt by attempt, down to the records of the response *)

\* max_retries of extract_triples and of detect_domain
max_retries == 3

\* base_delay of extract_triples, in seconds
base_delay == 5

\* the delay before a retry that follows another exception, in seconds
other_delay == 2

\* a record of the parsed response: a dict as a list of key/value pairs
Dict(h, r, t) == <<<<k_head, h>>, <<k_relation, r>>, <<k_tail, t>>>>

\* the records a response may hold: a full one, one whose head is blank,
\* one whose tail is empty, one without relation
ModelRecords ==
    { Dict(n_tau, r_binds, n_app), Dict(<<" ">>, r_binds, n_app),
      Dict(n_tau, r_binds, <<>>), <<<<k_head, n_tau>>, <<k_tail, n_app>>>> }

\* what json.loads gives for a response; <<>> also stands for the response
\* in which no array is found or which json.loads rejects
RecordLists == SeqsUpTo(ModelRecords, MaxRecords)

\* lines 319-330: the triples of the fallback response; a field is tested
\* for truth before it is stripped
simple_triples_of(triples_data) ==
    LET Has(t) == /\ DictGet(t, k_head) # <<>>
                  /\ DictGet(t, k_relation) # <<>>
                  /\ DictGet(t, k_tail) # <<>>
        kept == SelectSeq(triples_data, Has)
    IN  [ i \in 1..Len(kept) |->
            Triple(strip(DictGet(kept[i], k_head)),
                   strip(DictGet(kept[i], k_relation)),
                   strip(DictGet(kept[i], k_tail))) ]

\* (mutant) the delay after a rate-limit error does not grow
RetryDelays_Flat(raises, error, base) ==
    [ a \in 1..(IF raises >= max_retries THEN max_retries - 1 ELSE raises) |->
        IF error = "quota" THEN base ELSE other_delay ]

\* lines 338-347: the sleeps before the retries that follow the raising
\* attempts 0..raises-1 (the last attempt does not sleep)
RetryDelays(raises, error, base) ==
    [ a \in 1..(IF raises >= max_retries THEN max_retries - 1 ELSE raises) |->
        IF error = "quota" THEN base * 2^(a - 1) ELSE other_delay ]

\* the response of the fallback prompt: records, or the call raises
SimpleOutcomes ==
    { [kind |-> "data", data |-> d] : d \in RecordLists }
        \cup { [kind |-> "raises", data |-> <<>>] }

\* lines 215-349 for a chunk that is long enough: the first `raises`
\* attempts raise `error` at llm_general.invoke, the next one answers with
\* `data`; the fallback prompt, answered by `simple`, is sent only on the last
\* attempt (attempt == max_retries - 1)
extract_attempts(raises, error, data, simple) ==
    LET st == IF simple.kind = "data" THEN simple_triples_of(simple.data) ELSE <<>>
    IN  IF raises >= max_retries
        THEN [triples |-> <<>>, calls |-> max_retries, fallback |-> FALSE,
              delays |-> RetryDelays(raises, error, base_delay)]
        ELSE IF triples_of(data) # <<>>
        THEN [triples |-> triples_of(data), calls |-> raises + 1,
              fallback |-> FALSE,
              delays |-> RetryDelays(raises, error, base_delay)]
        ELSE IF raises = max_retries - 1
        THEN [triples |-> st, calls |-> raises + 2, fallback |-> TRUE,
              delays |-> RetryDelays(raises, error, base_delay)]
        ELSE [triples |-> <<>>, calls |-> raises + 1, fallback |-> FALSE,
              delays |-> RetryDelays(raises, error, base_delay)]

AttemptsInit ==
    /\ StoreInit /\ qa = QAIdle /\ ingest = NoIngest
    /\ call \in [op : {"chunk"}, raises : 0..max_retries,
                 error : {"quota", "other"}, data : RecordLists,
                 simple : SimpleOutcomes]

\* extract_triples on a chunk of at least MinChunkLen characters
ExtractAttempts ==
    /\ call.op = "chunk"
    /\ call' = [op |-> "extract_attempts", raises |-> call.raises,
                error |-> call.error, data |-> call.data,
                simple |-> call.simple,
                ret |-> extract_attempts(call.raises, call.error, call.data,
                                         call.simple)]
    /\ UNCHANGED <<nodes, edges, storeUp, last, qa, ingest>>

AttemptsNext == ExtractAttempts

SpecAttempts == AttemptsInit /\ [][AttemptsNext]_vars

----------------------------------------------------------------------------
(* try_direct_query: the query texts and parameters handed to session.run *)

\* the parts of the query text of each kind, and its two node variables
DirectTemplate(kind) ==
    CASE
             kind = "interact_exact" ->
               [match |-> <<"M", "A", "T", "C", "H", " ", "(", "e", "1", ":", "E", "n", "t", "i", "t", "y", ")", "-", "[", "r", ":", "R", "E", "L", "A", "T", "I", "O", "N", "]", "-", "(", "e", "2", ":", "E", "n", "t", "i", "t", "y", ")", " ", "W", "H", "E", "R", "E", " ", "(", "t", "o", "L", "o", "w", "e", "r", "(", "e", "1", ".", "n", "a", "m", "e", ")", " ", "=", " ", "t", "o", "L", "o", "w", "e", "r", "(", "$", "e", "n", "t", "i", "t", "y", ")", " ", "O", "R", " ", "t", "o", "L", "o", "w", "e", "r", "(", "e", "2", ".", "n", "a", "m", "e", ")", " ", "=", " ", "t", "o", "L", "o", "w", "e", "r", "(", "$", "e", "n", "t", "i", "t", "y", ")", ")">>,
                ret |-> <<" ", "R", "E", "T", "U", "R", "N", " ", "D", "I", "S", "T", "I", "N", "C", "T", " ", "C", "A", "S", "E", " ", "W", "H", "E", "N", " ", "t", "o", "L", "o", "w", "e", "r", "(", "e", "1", ".", "n", "a", "m", "e", ")", " ", "=", " ", "t", "o", "L", "o", "w", "e", "r", "(", "$", "e", "n", "t", "i", "t", "y", ")", " ", "T", "H", "E", "N", " ", "e", "2", ".", "n", "a", "m", "e", " ", "E", "L", "S", "E", " ", "e", "1", ".", "n", "a", "m", "e", " ", "E", "N", "D", " ", "a", "s", " ", "c", "o", "n", "n", "e", "c", "t", "e", "d", "_", "e", "n", "t", "i", "t", "y", ",", " ", "r", ".", "t", "y", "p", "e", " ", "a", "s", " ", "r", "e", "l", "a", "t", "i", "o", "n", ",", " ", "C", "A", "S", "E", " ", "W", "H", "E", "N", " ", "t", "o", "L", "o", "w", "e", "r", "(", "e", "1", ".", "n", "a", "m", "e", ")", " ", "=", " ", "t", "o", "L", "o", "w", "e", "r", "(", "$", "e", "n", "t", "i", "t", "y", ")", " ", "T", "H", "E", "N", " ", "e", "1", ".", "n", "a", "m", "e", " ", "E", "L", "S", "E", " ", "e", "2", ".", "n", "a", "m", "e", " ", "E", "N", "D", " ", "a", "s", " ", "s", "o", "u", "r", "c", "e", "_", "e", "n", "t", "i", "t", "y", " ", "L", "I", "M", "I", "T", " ", "2", "0">>,
                a |-> <<"e", "1">>, b |-> <<"e", "2">>]
          [] kind = "interact_contains" ->
               [match |-> <<"M", "A", "T", "C", "H", " ", "(", "e", "1", ":", "E", "n", "t", "i", "t", "y", ")", "-", "[", "r", ":", "R", "E", "L", "A", "T", "I", "O", "N", "]", "-", "(", "e", "2", ":", "E", "n", "t", "i", "t", "y", ")", " ", "W", "H", "E", "R", "E", " ", "(", "t", "o", "L", "o", "w", "e", "r", "(", "e", "1", ".", "n", "a", "m", "e", ")", " ", "C", "O", "N", "T", "A", "I", "N", "S", " ", "t", "o", "L", "o", "w", "e", "r", "(", "$", "e", "n", "t", "i", "t", "y", ")", " ", "O", "R", " ", "t", "o", "L", "o", "w", "e", "r", "(", "e", "2", ".", "n", "a", "m", "e", ")", " ", "C", "O", "N", "T", "A", "I", "N", "S", " ", "t", "o", "L", "o", "w", "e", "r", "(", "$", "e", "n", "t", "i", "t", "y", ")", ")">>,
                ret |-> <<" ", "R", "E", "T", "U", "R", "N", " ", "D", "I", "S", "T", "I", "N", "C", "T", " ", "C", "A", "S", "E", " ", "W", "H", "E", "N", " ", "t", "o", "L", "o", "w", "e", "r", "(", "e", "1", ".", "n", "a", "m", "e", ")", " ", "C", "O", "N", "T", "A", "I", "N", "S", " ", "t", "o", "L", "o", "w", "e", "r", "(", "$", "e", "n", "t", "i", "t", "y", ")", " ", "T", "H", "E", "N", " ", "e", "2", ".", "n", "a", "m", "e", " ", "E", "L", "S", "E", " ", "e", "1", ".", "n", "a", "m", "e", " ", "E", "N", "D", " ", "a", "s", " ", "c", "o", "n", "n", "e", "c", "t", "e", "d", "_", "e", "n", "t", "i", "t", "y", ",", " ", "r", ".", "t", "y", "p", "e", " ", "a", "s", " ", "r", "e", "l", "a", "t", "i", "o", "n", " ", "L", "I", "M", "I", "T", " ", "2", "0">>,
                a |-> <<"e", "1">>, b |-> <<"e", "2">>]
          [] kind = "about" ->
               [match |-> <<"M", "A", "T", "C", "H", " ", "(", "e", ":", "E", "n", "t", "i", "t", "y", ")", "-", "[", "r", ":", "R", "E", "L", "A", "T", "I", "O", "N", "]", "-", "(", "c", "o", "n", "n", "e", "c", "t", "e", "d", ":", "E", "n", "t", "i", "t", "y", ")", " ", "W", "H", "E", "R", "E", " ", "t", "o", "L", "o", "w", "e", "r", "(", "e", ".", "n", "a", "m", "e", ")", " ", "C", "O", "N", "T", "A", "I", "N", "S", " ", "t", "o", "L", "o", "w", "e", "r", "(", "$", "e", "n", "t", "i", "t", "y", ")">>,
                ret |-> <<" ", "R", "E", "T", "U", "R", "N", " ", "e", ".", "n", "a", "m", "e", " ", "a", "s", " ", "e", "n", "t", "i", "t", "y", ",", " ", "r", ".", "t", "y", "p", "e", " ", "a", "s", " ", "r", "e", "l", "a", "t", "i", "o", "n", ",", " ", "c", "o", "n", "n", "e", "c", "t", "e", "d", ".", "n", "a", "m", "e", " ", "a", "s", " ", "c", "o", "n", "n", "e", "c", "t", "e", "d", "_", "t", "o", " ", "L", "I", "M", "I", "T", " ", "1", "5">>,
                a |-> <<"e">>, b |-> <<"c", "o", "n", "n", "e", "c", "t", "e", "d">>]
          [] kind = "generic" ->
               [match |-> <<"M", "A", "T", "C", "H", " ", "(", "e", ":", "E", "n", "t", "i", "t", "y", ")", "-", "[", "r", ":", "R", "E", "L", "A", "T", "I", "O", "N", "]", "-", "(", "o", "t", "h", "e", "r", ":", "E", "n", "t", "i", "t", "y", ")", " ", "W", "H", "E", "R", "E", " ", "t", "o", "L", "o", "w", "e", "r", "(", "e", ".", "n", "a", "m", "e", ")", " ", "C", "O", "N", "T", "A", "I", "N", "S", " ", "t", "o", "L", "o", "w", "e", "r", "(", "$", "e", "n", "t", "i", "t", "y", ")">>,
                ret |-> <<" ", "R", "E", "T", "U", "R", "N", " ", "e", ".", "n", "a", "m", "e", " ", "a", "s", " ", "e", "n", "t", "i", "t", "y", ",", " ", "r", ".", "t", "y", "p", "e", " ", "a", "s", " ", "r", "e", "l", "a", "t", "i", "o", "n", ",", " ", "o", "t", "h", "e", "r", ".", "n", "a", "m", "e", " ", "a", "s", " ", "r", "e", "l", "a", "t", "e", "d", "_", "e", "n", "t", "i", "t", "y", " ", "L", "I", "M", "I", "T", " ", "1", "5">>,
                a |-> <<"e">>, b |-> <<"o", "t", "h", "e", "r">>]

\* " AND a.session_id = $session_id AND b.session_id = $session_id"
SessionClause(a, b) ==
    <<" ", "A", "N", "D", " ">> \o a \o <<".", "s", "e", "s", "s", "i", "o", "n", "_", "i", "d", " ", "=", " ", "$", "s", "e", "s", "s", "i", "o", "n", "_", "i", "d">> \o <<" ", "A", "N", "D", " ">> \o b \o <<".", "s", "e", "s", "s", "i", "o", "n", "_", "i", "d", " ", "=", " ", "$", "s", "e", "s", "s", "i", "o", "n", "_", "i", "d">>

\* (mutant) the session clause is never added to the query text
direct_query_Unscoped(kind, entity, sid) ==
    [kind |-> kind,
     text |-> DirectTemplate(kind).match \o DirectTemplate(kind).ret,
     params |-> [entity |-> entity, session_id |-> sid]]

\* query text and parameters of session.run(query, entity=.., session_id=..)
direct_query(kind, entity, sid) ==
    LET t == DirectTemplate(kind)
    IN  [kind |-> kind,
         text |-> t.match
                    \o (IF Truthy(sid) THEN SessionClause(t.a, t.b) ELSE <<>>)
                    \o t.ret,
         params |-> [entity |-> entity, session_id |-> sid]]

\* the store's rows for such a call: the session predicate applies only when
\* the text carries it, with the value bound to $session_id
direct_rows(query, st) ==
    LET t   == DirectTemplate(query.kind)
        sid == IF Contains(query.text, SessionClause(t.a, t.b))
               THEN query.params.session_id ELSE None
    IN  CASE query.kind = "interact_exact" ->
                interact_exact(st, query.params.entity, sid)
          [] query.kind = "interact_contains" ->
                interact_contains(st, query.params.entity, sid)
          [] OTHER -> entity_search(st, query.params.entity, sid)

\* a question that every pattern of try_direct_query applies to
q_all == <<"W", "h", "a", "t", " ", "i", "s", " ", "T", "a", "u", "?", " ", "Z", "e", "d", " ", "a", "n", "d", " ", "K", "i", "p", " ", "i", "n", "t", "e", "r", "a", "c", "t">>

DirectQuestions == Questions \cup {q_all}

RECURSIVE direct_calls_All(_, _, _)
\* (mutant) every block of the plan is run, whatever rows were found
direct_calls_All(plan, st, sid) ==
    IF plan = <<>> THEN <<>>
    ELSE LET b  == Head(plan)
             q1 == direct_query(IF b.kind = "interact" THEN "interact_exact"
                                ELSE b.kind, b.entity, sid)
             q2 == direct_query("interact_contains", b.entity, sid)
             c1 == [query |-> q1, rows |-> direct_rows(q1, st)]
             c2 == [query |-> q2, rows |-> direct_rows(q2, st)]
         IN  (IF b.kind = "interact" THEN <<c1, c2>> ELSE <<c1>>)
                \o direct_calls_All(Tail(plan), st, sid)

RECURSIVE direct_calls(_, _, _)
\* the session.run calls of try_direct_query for the blocks of a plan, each
\* with its rows: an interact block makes its second call when the first
\* found nothing, and the first call that finds rows is the last
direct_calls(plan, st, sid) ==
    IF plan = <<>> THEN <<>>
    ELSE LET b  == Head(plan)
             q1 == direct_query(IF b.kind = "interact" THEN "interact_exact"
                                ELSE b.kind, b.entity, sid)
             q2 == direct_query("interact_contains", b.entity, sid)
             c1 == [query |-> q1, rows |-> direct_rows(q1, st)]
             c2 == [query |-> q2, rows |-> direct_rows(q2, st)]
         IN  IF c1.rows # {} THEN <<c1>>
             ELSE IF b.kind = "interact"
             THEN IF c2.rows # {} THEN <<c1, c2>>
                  ELSE <<c1, c2>> \o direct_calls(Tail(plan), st, sid)
             ELSE <<c1>> \o direct_calls(Tail(plan), st, sid)

DirectInit ==
    /\ qa = QAIdle /\ ingest = NoIngest /\ storeUp = TRUE /\ last = NoCall
    /\ \E da \in SeqsUpTo(TripleUniverse, MaxTriples),
          db \in SeqsUpTo(TripleUniverse, MaxTriples) :
          LET sa == populate_neo4j([nodes |-> EmptyBag, edges |-> EmptyBag],
                                   TRUE, TRUE, da, "A").st
              sb == populate_neo4j(sa, TRUE, TRUE, db, "B").st
          IN  nodes = sb.nodes /\ edges = sb.edges
    /\ call \in [op : {"question"}, question : DirectQuestions,
                 session_id : SessionArgs]

\* try_direct_query(question, graph, llm) against the store
TryDirect ==
    /\ call.op = "question"
    /\ call' = [op |-> "try_direct_query", question |-> call.question,
                session_id |-> call.session_id,
                calls |-> direct_calls(direct_plan(call.question), Store,
                                       call.session_id)]
    /\ UNCHANGED <<nodes, edges, storeUp, last, qa, ingest>>

DirectNext == TryDirect

SpecDirect == DirectInit /\ [][DirectNext]_vars

----------------------------------------------------------------------------
(* process_pdf_file: the loop over the chunks, one outcome per chunk *)

\* what happens while a chunk is extracted: the response holds a triple; it
\* holds none; every attempt raises a rate-limit error; every attempt raises
\* another error; an exception escapes to the loop
ChunkOutcomes == {"triples", "nothing", "quota", "other", "exception"}

\* the triple the k-th chunk's text states
ChunkTriple(k) == ExtractionOrder[((k - 1) % Len(ExtractionOrder)) + 1]

\* extract_triples(chunk, domain) for the k-th chunk under outcome o
chunk_triples(k, o) ==
    LET t == ChunkTriple(k)
        none == [kind |-> "data", data |-> <<>>]
    IN  CASE o = "triples" ->
               extract_attempts(0, "quota", <<Dict(t.head, t.relation, t.tail)>>,
                                none).triples
          [] o = "nothing" -> extract_attempts(0, "quota", <<>>, none).triples
          [] o = "quota" ->
               extract_attempts(max_retries, "quota", <<>>, none).triples
          [] OTHER -> extract_attempts(max_retries, "other", <<>>, none).triples

RECURSIVE process_chunks_Abort(_, _)
\* (mutant) the first chunk that fails ends the loop
process_chunks_Abort(outs, k) ==
    IF k > Len(outs) THEN [triples |-> <<>>, attempted |-> 0]
    ELSE IF outs[k] \in {"quota", "other", "exception"}
         THEN [triples |-> <<>>, attempted |-> 1]
         ELSE LET rest == process_chunks_Abort(outs, k + 1)
              IN  [triples |-> chunk_triples(k, outs[k]) \o rest.triples,
                   attempted |-> 1 + rest.attempted]

RECURSIVE process_chunks(_, _)
\* lines 144-166 from chunk k on: each chunk in its own try block; the
\* triples of a chunk are appended, an exception is reported and the loop
\* goes on
process_chunks(outs, k) ==
    IF k > Len(outs) THEN [triples |-> <<>>, attempted |-> 0]
    ELSE LET rest == process_chunks(outs, k + 1)
             this == IF outs[k] = "exception" THEN <<>>
                     ELSE chunk_triples(k, outs[k])
         IN  [triples |-> this \o rest.triples,
              attempted |-> 1 + rest.attempted]

ChunksInit ==
    /\ StoreInit /\ qa = QAIdle /\ ingest = NoIngest
    /\ call \in { [op |-> "chunks", outs |-> o] :
                    o \in SeqsUpTo(ChunkOutcomes, MaxChunks) \ {<<>>} }

\* process_pdf_file on a document whose chunks are all long enough
ProcessChunks ==
    /\ call.op = "chunks"
    /\ call' = [op |-> "process_chunks", outs |-> call.outs,
                ret |-> process_chunks(call.outs, 1)]
    /\ UNCHANGED <<nodes, edges, storeUp, last, qa, ingest>>

ChunksNext == ProcessChunks

SpecChunks == ChunksInit /\ [][ChunksNext]_vars

----------------------------------------------------------------------------
(* detect_domain attempt by attempt *)

\* base_delay of detect_domain
detect_base_delay == 3

\* the fallback label
unknown_domain == <<"U", "n", "k", "n", "o", "w", "n", " ", "D", "o", "m", "a", "i", "n">>

\* what llm_general.invoke does at an attempt: it answers, it raises a
\* rate-limit error, it raises another error
AttemptOutcomes == {"ok", "quota", "other"}

\* response.content of an answering call
DomainContents ==
    { <<"L", "a", "w">>, <<" ", "L", "a", "w", "\n">>, <<" ">>, <<>> }

Label(text) == [kind |-> "label", text |-> text]

RECURSIVE detect_domain_Reraise(_, _, _)
\* (mutant) the error of the last attempt is raised to the caller
detect_domain_Reraise(outs, content, attempt) ==
    IF attempt >= max_retries
    THEN [ret |-> [kind |-> "none", text |-> <<>>], calls |-> 0, delays |-> <<>>]
    ELSE IF outs[attempt + 1] = "ok"
    THEN [ret |-> Label(strip(content)), calls |-> 1, delays |-> <<>>]
    ELSE IF outs[attempt + 1] = "quota" /\ attempt < max_retries - 1
    THEN LET rest == detect_domain_Reraise(outs, content, attempt + 1)
         IN  [ret |-> rest.ret, calls |-> 1 + rest.calls,
              delays |-> <<detect_base_delay * 2^attempt>> \o rest.delays]
    ELSE [ret |-> [kind |-> "raised", text |-> <<>>], calls |-> 1,
          delays |-> <<>>]

RECURSIVE detect_domain_from(_, _, _)
\* lines 182-201 from `attempt` on: the value returned, the calls of
\* llm_general.invoke and the delays slept
detect_domain_from(outs, content, attempt) ==
    IF attempt >= max_retries
    THEN [ret |-> [kind |-> "none", text |-> <<>>], calls |-> 0, delays |-> <<>>]
    ELSE IF outs[attempt + 1] = "ok"
    THEN [ret |-> Label(strip(content)), calls |-> 1, delays |-> <<>>]
    ELSE IF outs[attempt + 1] = "quota" /\ attempt < max_retries - 1
    THEN LET rest == detect_domain_from(outs, content, attempt + 1)
         IN  [ret |-> rest.ret, calls |-> 1 + rest.calls,
              delays |-> <<detect_base_delay * 2^attempt>> \o rest.delays]
    ELSE [ret |-> Label(unknown_domain), calls |-> 1, delays |-> <<>>]

DomainInit ==
    /\ StoreInit /\ qa = QAIdle /\ ingest = NoIngest
    /\ call \in [op : {"preview"}, outs : [1..max_retries -> AttemptOutcomes],
                 content : DomainContents]

\* detect_domain(preview_text)
DetectDomain ==
    /\ call.op = "preview"
    /\ call' = [op |-> "detect_domain", outs |-> call.outs,
                content |-> call.content,
                ret |-> detect_domain_from(call.outs, call.content, 0)]
    /\ UNCHANGED <<nodes, edges, storeUp, last, qa, ingest>>

DomainNext == DetectDomain

SpecDomain == DomainInit /\ [][DomainNext]_vars

----------------------------------------------------------------------------
(* generate_answer_from_results: the text of the formatter *)

\* results[:10]
top_results == 10

\* results[:5]
summary_results == 5

\* results_text[:200]
text_cap == 200

\* s[:n]
FirstN(s, n) == SubSeq(s, 1, IF n < Len(s) THEN n ELSE Len(s))

RECURSIVE Join(_, _)
\* sep.join(parts)
Join(parts, sep) ==
    IF parts = <<>> THEN <<>>
    ELSE IF Len(parts) = 1 THEN parts[1]
    ELSE parts[1] \o sep \o Join(Tail(parts), sep)

DigitChars == <<"0", "1", "2", "3", "4", "5", "6", "7", "8", "9">>

\* str(n) for 0 <= n < 100
IntText(n) ==
    IF n < 10 THEN <<DigitChars[n + 1]>>
    ELSE <<DigitChars[(n \div 10) + 1], DigitChars[(n % 10) + 1]>>

\* [ f(x) for x in s if x is kept ]
Kept(s, keep) ==
    LET RECURSIVE K(_)
        K(i) == IF i > Len(s) THEN <<>>
                ELSE (IF keep[i] THEN <<s[i]>> ELSE <<>>) \o K(i + 1)
    IN  K(1)

\* the column names of the rows
k_connected_entity == <<"c", "o", "n", "n", "e", "c", "t", "e", "d", "_", "e", "n", "t", "i", "t", "y">>
k_related_entity == <<"r", "e", "l", "a", "t", "e", "d", "_", "e", "n", "t", "i", "t", "y">>
k_entity2 == <<"e", "n", "t", "i", "t", "y", "2">>
k_connected_to == <<"c", "o", "n", "n", "e", "c", "t", "e", "d", "_", "t", "o">>
k_entity == <<"e", "n", "t", "i", "t", "y">>
k_name == <<"n", "a", "m", "e">>
k_type == <<"t", "y", "p", "e">>

\* a row of a query result: a dict, as its items in order
Item(k, v) == [k |-> k, v |-> v]

\* r.get(key): the value, and the empty text for the None of a missing key
\* (the formatter only tests the value for truth)
Get(r, key) ==
    IF \E i \in 1..Len(r) : r[i].k = key
    THEN r[CHOOSE i \in 1..Len(r) : r[i].k = key].v
    ELSE <<>>

\* Python: a or b
Or(a, b) == IF a # <<>> THEN a ELSE b

\* rows of the direct queries: of the 'interact' query (lines 304-307) and of
\* the 'what is' query (line 354); a null relation type is the empty text
RowOrder ==
    << <<Item(k_connected_entity, n_app), Item(k_relation, r_binds)>>,
       <<Item(k_entity, n_tau), Item(k_relation, r_binds),
         Item(k_connected_to, n_app)>>,
       <<Item(k_connected_entity, n_app), Item(k_relation, r_inhibits)>>,
       <<Item(k_entity, n_tau), Item(k_relation, <<>>),
         Item(k_connected_to, n_Tau)>> >>

ResultRows == { RowOrder[i] : i \in 1..Len(RowOrder) }

\* results of n rows that go through RowOrder
Cycle(n) == [ i \in 1..n |-> RowOrder[((i - 1) % Len(RowOrder)) + 1] ]

\* the results given to the function: none, short ones, and one longer than
\* each slice the formatter takes
ResultLists ==
    SeqsUpTo(ResultRows, MaxRows)
        \cup {Cycle(summary_results + 1), Cycle(top_results + 1)}

\* lines 402-414: one line per row of results[:10], 'key: value' joined by ' | '
results_text(results) ==
    LET top == FirstN(results, top_results)
        line(r) ==
            Join([ i \in 1..Len(Kept(r, [ j \in 1..Len(r) |-> r[j].v # <<>> ])) |->
                     LET it == Kept(r, [ j \in 1..Len(r) |-> r[j].v # <<>> ])[i]
                     IN  it.k \o <<":", " ">> \o it.v ],
                 <<" ", "|", " ">>)
    IN  Join([ i \in 1..Len(top) |-> line(top[i]) ], <<"\n">>)

\* line 450: ', '.join(f'{k}={v}' for k, v in result.items() if v)
key_values(r) ==
    LET items == Kept(r, [ j \in 1..Len(r) |-> r[j].v # <<>> ])
    IN  Join([ i \in 1..Len(items) |-> items[i].k \o <<"=">> \o items[i].v ],
             <<",", " ">>)

\* lines 435-441: the entries of the interaction list
interact_entities(results) ==
    LET top == FirstN(results, top_results)
        entity(r) == Or(Get(r, k_connected_entity),
                        Or(Get(r, k_related_entity), Get(r, k_entity2)))
        relation(r) == Or(Get(r, k_relation), Get(r, k_type))
        entry(r) == IF relation(r) # <<>>
                    THEN entity(r) \o <<" ", "(">> \o relation(r) \o <<")">>
                    ELSE entity(r)
        kept == Kept(top, [ i \in 1..Len(top) |-> entity(top[i]) # <<>> ])
    IN  [ i \in 1..Len(kept) |-> entry(kept[i]) ]

\* lines 454-461: the names of the summary
summary_items(results) ==
    LET top == FirstN(results, summary_results)
        entity(r) == Or(Get(r, k_entity),
                        Or(Get(r, k_connected_entity), Get(r, k_name)))
        kept == Kept(top, [ i \in 1..Len(top) |-> entity(top[i]) # <<>> ])
    IN  [ i \in 1..Len(kept) |-> entity(kept[i]) ]

\* lines 432-466: the text returned when the model gave none
fallback_text(question, results) ==
    LET ql == lower(question)
        n == IntText(Len(results))
        entities == interact_entities(results)
    IN  IF /\ \/ Contains(ql, <<"i", "n", "t", "e", "r", "a", "c", "t">>)
              \/ Contains(ql, <<"i", "n", "t", "e", "r", "a", "c", "t", "i", "o", "n">>)
           /\ entities # <<>>
        THEN <<"F", "o", "u", "n", "d", " ">> \o n
               \o <<" ", "i", "n", "t", "e", "r", "a", "c", "t", "i", "o", "n", "(", "s", ")", ".", " ", "E", "n", "t", "i", "t", "i", "e", "s", " ", "t", "h", "a", "t", " ", "i", "n", "t", "e", "r", "a", "c", "t", ":", " ">>
               \o Join(FirstN(entities, top_results), <<",", " ">>)
        ELSE IF Len(results) = 1
        THEN <<"F", "o", "u", "n", "d", ":", " ">> \o key_values(results[1])
        ELSE IF summary_items(results) # <<>>
        THEN <<"F", "o", "u", "n", "d", " ">> \o n \o <<" ", "r", "e", "s", "u", "l", "t", "(", "s", ")", ".", " ", "E", "x", "a", "m", "p", "l", "e", "s", ":", " ">>
               \o Join(summary_items(results), <<",", " ">>)
        ELSE <<"F", "o", "u", "n", "d", " ">> \o n \o <<" ", "r", "e", "s", "u", "l", "t", "(", "s", ")", ".", " ">>
               \o FirstN(results_text(results), text_cap)

\* the llm argument: None, a model whose call raises, a model that answers,
\* a model that answers with an empty content
LlmArgs == {"none", "raises", "answers", "blank"}

\* (mutant) a raising model call makes the function return None
answer_from_results_NoneOnFailure(question, results, llm) ==
    IF results = <<>> THEN [kind |-> "none", text |-> <<>>, calls |-> 0]
    ELSE IF llm = "answers" THEN [kind |-> "llm", text |-> a_good, calls |-> 1]
    ELSE IF llm = "blank" THEN [kind |-> "llm", text |-> <<>>, calls |-> 1]
    ELSE IF llm = "raises" THEN [kind |-> "none", text |-> <<>>, calls |-> 1]
    ELSE [kind |-> "formatter", text |-> fallback_text(question, results),
          calls |-> 0]

\* generate_answer_from_results(question, results, llm) with its rows: what
\* is returned (None, the model's content, the formatter's text) and the
\* calls of llm.invoke made
answer_from_results(question, results, llm) ==
    IF results = <<>> THEN [kind |-> "none", text |-> <<>>, calls |-> 0]
    ELSE IF llm = "answers" THEN [kind |-> "llm", text |-> a_good, calls |-> 1]
    ELSE IF llm = "blank" THEN [kind |-> "llm", text |-> <<>>, calls |-> 1]
    ELSE [kind |-> "formatter", text |-> fallback_text(question, results),
          calls |-> IF llm = "raises" THEN 1 ELSE 0]

FormatInit ==
    /\ StoreInit /\ qa = QAIdle /\ ingest = NoIngest
    /\ call \in [op : {"results"}, question : {q_interact, q_about},
                 results : ResultLists, llm : LlmArgs]

GenerateAnswer ==
    /\ call.op = "results"
    /\ call' = [op |-> "generate_answer_from_results",
                question |-> call.question, results |-> call.results,
                llm |-> call.llm,
                ret |-> answer_from_results(call.question, call.results,
                                            call.llm)]
    /\ UNCHANGED <<nodes, edges, storeUp, last, qa, ingest>>

FormatNext == GenerateAnswer

SpecFormat == FormatInit /\ [][FormatNext]_vars

----------------------------------------------------------------------------
(* tools.py: initialize_components called by two sessions' threads *)

\* the script threads of two sessions in the one server process
Threads == {"t1", "t2"}

\* the module globals graph, llm, cypher_chain (0 is None, k > 0 the k-th
\* instance constructed), each thread's position, and the chain a thread
\* went on to use
ComponentsInit ==
    /\ StoreInit /\ qa = QAIdle /\ ingest = NoIngest
    /\ call = [op |-> "components", graph |-> 0, llm |-> 0, cypher_chain |-> 0,
               built |-> [graph |-> 0, llm |-> 0, cypher_chain |-> 0],
               pc |-> [t \in Threads |-> "query_graph"],
               used |-> [t \in Threads |-> 0]]

\* thread t is at position p
At(t, p) == call.op = "components" /\ call.pc[t] = p

\* the globals c with thread t moved to position p
Go(t, p, c) == [c EXCEPT !.pc[t] = p]

\* query_graph lines 113-115: if cypher_chain is None: initialize_components()
CheckChainFirst(t) ==
    /\ At(t, "query_graph")
    /\ call' = Go(t, IF call.cypher_chain = 0 THEN "if_graph" ELSE "use", call)
    /\ UNCHANGED <<nodes, edges, storeUp, last, qa, ingest>>

\* line 33: if graph is None
CheckGraph(t) ==
    /\ At(t, "if_graph")
    /\ call' = Go(t, IF call.graph = 0 THEN "get_graph" ELSE "if_llm", call)
    /\ UNCHANGED <<nodes, edges, storeUp, last, qa, ingest>>

\* line 34: graph = get_graph()
AssignGraph(t) ==
    /\ At(t, "get_graph")
    /\ call' = Go(t, "if_llm",
                  [call EXCEPT !.built.graph = @ + 1,
                               !.graph = call.built.graph + 1])
    /\ UNCHANGED <<nodes, edges, storeUp, last, qa, ingest>>

\* line 36: if llm is None
CheckLlm(t) ==
    /\ At(t, "if_llm")
    /\ call' = Go(t, IF call.llm = 0 THEN "new_llm" ELSE "if_chain", call)
    /\ UNCHANGED <<nodes, edges, storeUp, last, qa, ingest>>

\* lines 39-45: llm = ChatGoogleGenerativeAI(...)
AssignLlm(t) ==
    /\ At(t, "new_llm")
    /\ call' = Go(t, "if_chain",
                  [call EXCEPT !.built.llm = @ + 1, !.llm = call.built.llm + 1])
    /\ UNCHANGED <<nodes, edges, storeUp, last, qa, ingest>>

\* line 47: if cypher_chain is None
CheckChain(t) ==
    /\ At(t, "if_chain")
    /\ call' = Go(t, IF call.cypher_chain = 0 THEN "from_llm" ELSE "use", call)
    /\ UNCHANGED <<nodes, edges, storeUp, last, qa, ingest>>

\* lines 65-72: cypher_chain = GraphCypherQAChain.from_llm(llm=llm, graph=graph)
AssignChain(t) ==
    /\ At(t, "from_llm")
    /\ call' = Go(t, "use",
                  [call EXCEPT !.built.cypher_chain = @ + 1,
                               !.cypher_chain = call.built.cypher_chain + 1])
    /\ UNCHANGED <<nodes, edges, storeUp, last, qa, ingest>>

\* query_graph goes on with the global chain (line 160: cypher_chain.invoke)
UseChain(t) ==
    /\ At(t, "use")
    /\ call' = Go(t, "done", [call EXCEPT !.used[t] = call.cypher_chain])
    /\ UNCHANGED <<nodes, edges, storeUp, last, qa, ingest>>

ComponentsNext ==
    \E t \in Threads :
        \/ CheckChainFirst(t)
        \/ CheckGraph(t)
        \/ AssignGraph(t)
        \/ CheckLlm(t)
        \/ AssignLlm(t)
        \/ CheckChain(t)
        \/ AssignChain(t)
        \/ UseChain(t)

SpecComponents == ComponentsInit /\ [][ComponentsNext]_vars

----------------------------------------------------------------------------
(* app.py: the runs of the script in one browser session *)

\* st.session_state of a new browser session: no key is set
SessionInit ==
    /\ StoreInit /\ qa = QAIdle /\ ingest = NoIngest
    /\ call = [op |-> "session", session_id |-> None, db_cleared |-> FALSE,
               runs |-> 0, clears |-> 0, ingested |-> FALSE, lost |-> FALSE,
               unscoped |-> FALSE]

\* what cleanup_old_data(hours=24) does in a run: it returns a count, or it
\* raises; it raises when the store is unreachable (no node of this model
\* is older than the threshold, so a sweep that returns deletes nothing)
TtlOutcomes == {"returns", "raises"}

cleanup_old_data(up, ttl) ==
    IF up /\ ttl = "returns" THEN [raised |-> FALSE, deleted |-> 0]
    ELSE [raised |-> TRUE, deleted |-> 0]

\* lines 29-46: under "if 'db_cleared' not in st.session_state", inside one
\* try block: clear_database(st.session_state.session_id), where reading the
\* unset session_id raises AttributeError; cleanup_old_data(hours=24);
\* db_cleared = True. Any exception leaves db_cleared unset
startup_clear(state, st, up, ttl) ==
    IF state.db_cleared THEN [called |-> FALSE, ret |-> FALSE, st |-> st,
                              db_cleared |-> TRUE, sid |-> None]
    ELSE IF state.session_id = None
    THEN [called |-> FALSE, ret |-> FALSE, st |-> st, db_cleared |-> FALSE,
          sid |-> None]
    ELSE LET r == clear_database(st, up, state.session_id)
         IN  [called |-> TRUE, ret |-> r.ret, st |-> r.st,
              db_cleared |-> ~cleanup_old_data(up, ttl).raised,
              sid |-> state.session_id]

\* one run of the script: the startup block, the session state
\* initialisation (lines 166-178, session_id once), and, when the upload
\* button was clicked with triples extracted, populate_neo4j for the session
\* (lines 330-352; on success st.rerun() starts the next run)
ScriptRun(click, data, ttl) ==
    /\ call.op = "session"
    /\ call.runs < MaxRuns
    /\ click => call.session_id # None
    /\ LET s  == startup_clear(call, Store, storeUp, ttl)
           sid == IF call.session_id = None THEN "A" ELSE call.session_id
           had == \E n \in BagToSet(nodes) : n.session_id = sid
           p  == populate_neo4j(s.st, storeUp, TRUE, data, sid)
           st2 == IF click THEN p.st ELSE s.st
       IN  /\ nodes' = st2.nodes
           /\ edges' = st2.edges
           /\ call' = [op |-> "session", session_id |-> sid,
                       db_cleared |-> s.db_cleared,
                       runs |-> call.runs + 1,
                       clears |-> call.clears + (IF s.called /\ s.ret THEN 1 ELSE 0),
                       ingested |-> call.ingested \/ (click /\ p.success),
                       lost |-> call.lost \/ (s.called /\ s.ret /\ had),
                       unscoped |-> call.unscoped \/ (s.called /\ ~Truthy(s.sid))]
    /\ UNCHANGED <<storeUp, last, qa, ingest>>

SessionNext ==
    \/ \E click \in BOOLEAN, ttl \in TtlOutcomes,
          data \in SeqsUpTo(TripleUniverse, MaxTriples) \ {<<>>} :
          ScriptRun(click, data, ttl)
    \/ Connectivity

SpecSession == SessionInit /\ [][SessionNext]_vars

----------------------------------------------------------------------------
(* fix_cypher_query applied to query texts with two named nodes *)

\* variable names a generated query may give a named node: a usual
\* variable, or the entity's own name
NodeVars == {v_n, v_ent, n_tau, n_Tau, n_app}

\* MATCH (a {name: 'x'})-[r]-(b {name: 'y'}) RETURN a.name, b.name
TwoNodeText(a, x, b, y) ==
    <<"M", "A", "T", "C", "H", " ", "(">> \o a \o <<" ", "{", "n", "a", "m", "e", ":", " ", "'">> \o x \o <<"'", "}", ")", "-", "[", "r", "]", "-", "(">>
        \o b \o <<" ", "{", "n", "a", "m", "e", ":", " ", "'">> \o y \o <<"'", "}", ")", " ", "R", "E", "T", "U", "R", "N", " ">>
        \o a \o <<".", "n", "a", "m", "e", ",", " ">> \o b \o <<".", "n", "a", "m", "e">>

\* the two-node queries, each with the variables it binds
TwoNodeInputs ==
    { [vars |-> <<a, b>>, query |-> TwoNodeText(a, x, b, y)] :
        <<a, b, x, y>> \in { t \in NodeVars \X NodeVars \X {n_tau, n_app}
                                    \X {n_tau, n_app} : t[1] # t[2] } }

\* other texts a caller may pass: the queries of FixInputs, list indexing,
\* nested brackets, a pattern without blanks, the empty text
OtherTexts ==
    { i.query : i \in FixInputs }
    \cup { <<"R", "E", "T", "U", "R", "N", " ", "[", "[", "]", "]", ",", " ", "x", "[", "0", "]">>,
           <<"M", "A", "T", "C", "H", " ", "(", "_", "a", "{", "n", "a", "m", "e", ":", "\"", "A", "P", "P", "\"", "}", ")", " ", "R", "E", "T", "U", "R", "N", " ", "_", "a">>,
           <<"M", "A", "T", "C", "H", " ", "(", "T", "a", "u", " ", "{", "n", "a", "m", "e", ":", " ", "'", "[", "r", "]", "'", "}", ")", "-", "[", "]", "-", "(", "m", ")", " ", "R", "E", "T", "U", "R", "N", " ", "m">>,
           <<>> }

TextsInit ==
    /\ StoreInit /\ qa = QAIdle /\ ingest = NoIngest
    /\ \/ call \in { [op |-> "query_text", vars |-> i.vars, query |-> i.query] :
                       i \in TwoNodeInputs }
       \/ call \in { [op |-> "query_text", vars |-> <<>>, query |-> t] :
                       t \in OtherTexts }
       \/ call = [op |-> "query_text", vars |-> <<>>, query |-> None]

\* fix_cypher_query(query)
FixText ==
    /\ call.op = "query_text"
    /\ call' = [op |-> "fixed_text", vars |-> call.vars, query |-> call.query,
                result |-> fix_cypher_query(call.query)]
    /\ UNCHANGED <<nodes, edges, storeUp, last, qa, ingest>>

\* fix_cypher_query(fix_cypher_query(query))
FixTextAgain ==
    /\ call.op = "fixed_text"
    /\ call' = [op |-> "fixed_twice", vars |-> call.vars, query |-> call.query,
                result |-> call.result,
                again |-> fix_cypher_query(call.result)]
    /\ UNCHANGED <<nodes, edges, storeUp, last, qa, ingest>>

TextsNext == FixText \/ FixTextAgain

SpecTexts == TextsInit /\ [][TextsNext]_vars

----------------------------------------------------------------------------
(* Session isolation of the store *)

StoreNow == [nodes |-> nodes', edges |-> edges']

IsWrite(l) == l.op \in {"populate_neo4j", "clear_database"}

\* C2: get_graph_stats(B) changes only through populate_neo4j and
\* clear_database calls made with session B: a call with another non-empty
\* session id leaves nodes, relationships and relation types of B as they were
C2_StatsFrame ==
    [][ \A b \in Sessions :
          (IsWrite(last') /\ Truthy(last'.session_id) /\ last'.session_id # b)
             => get_graph_stats(StoreNow, b) = get_graph_stats(Store, b) ]_vars

\* C2 witness: session A (which held two entities and an edge) has just been
\* cleared while session B holds its two entities
C2_Witness ==
    /\ last.op = "clear_database" /\ last.session_id = "A" /\ last.ret
    /\ last.before = 2
    /\ get_graph_stats(Store, "A").nodes = 0
    /\ get_graph_stats(Store, "B").nodes = 2
    /\ get_graph_stats(Store, "B").relationships = 1

\* C3: when clear_database(A) has returned True, no Entity node and no
\* RELATION edge of session A is left and get_graph_stats(A) counts nothing
C3_ClearRemovesAll ==
    (last.op = "clear_database" /\ last.ret /\ Truthy(last.session_id)) =>
        /\ \A n \in BagToSet(nodes) : n.session_id # last.session_id
        /\ \A e \in BagToSet(edges) : e.session_id # last.session_id
        /\ get_graph_stats(Store, last.session_id).nodes = 0
        /\ get_graph_stats(Store, last.session_id).relationships = 0

\* C3 witness: a successful clear of a session that held three entities
C3_Witness ==
    /\ last.op = "clear_database" /\ last.ret /\ Truthy(last.session_id)
    /\ last.before = 3

\* C4: every RELATION edge carries the session_id of both its endpoints,
\* and both endpoints are Entity nodes of the store
C4_NoCrossSessionEdge ==
    \A e \in BagToSet(edges) :
        /\ e.session_id = e.src.session_id
        /\ e.session_id = e.dst.session_id
        /\ BagIn(e.src, nodes) /\ BagIn(e.dst, nodes)

\* C4 witness: both sessions hold an edge on the same entity names
C4_Witness ==
    \E e, f \in BagToSet(edges) :
        /\ e.session_id = "A" /\ f.session_id = "B"
        /\ e.src.name = f.src.name /\ e.dst.name = f.dst.name

\* C5: populate_neo4j run again with the same triple list and session id
\* (file present, store reachable) succeeds and leaves the nodes and edges,
\* hence the counts of get_graph_stats, exactly as the first run left them
C5_IdempotentMerge ==
    (last.op = "populate_neo4j" /\ last.repeat /\ last.exists /\ last.up) =>
        (last.success /\ ~last.changed)

\* C5 witness: a two-triple list has been ingested a second time
C5_Witness ==
    /\ last.op = "populate_neo4j" /\ last.repeat /\ last.success
    /\ Len(last.data) = 2 /\ last.data[1] # last.data[2]
    /\ get_graph_stats(Store, last.session_id).relationships = 2


----------------------------------------------------------------------------
(* Session scoping of the adapter reads *)

RowsOfSession(rows, sid) ==
    \A r \in rows : r.n.session_id = sid /\ r.m.session_id = sid

\* C8: a read made with a session id (get_graph_stats, get_graph_sample,
\* get_entity_connections, query_graph_cypher) returns only rows whose
\* entities belong to that session, whatever query text or name is passed
C8_ReadsScoped ==
    (last.op \in ReadOps /\ Truthy(last.session_id) /\ ~last.raised) =>
        RowsOfSession(last.rows, last.session_id)

----------------------------------------------------------------------------
(* The question-answering pipeline *)

\* C1: an answer query_graph returns while the current session is A is made
\* only from rows whose entities carry session_id A, on every path (chain
\* query, repaired query, direct fallback)
C1_AnswerFromOwnSession ==
    (qa.pc = "done" /\ qa.ret.msg = "answer" /\ Truthy(qa.session_id)) =>
        RowsOfSession(qa.ret.rows, qa.session_id)

\* C6: after the generated query ran, query_graph performs at most one
\* repair re-execution and at most one try_direct_query invocation, of at
\* most 3 pattern attempts
C6_BoundedFallback ==
    /\ qa.repairs <= 1
    /\ qa.directs <= 1
    /\ qa.queries <= 3

\* C7: when the chain's answer is unsatisfactory and neither the repair nor
\* the direct fallback yields an answer, query_graph returns the not-found
\* message, never the unsatisfactory answer or the stringified raw result
C7_NotFoundWhenExhausted ==
    ( /\ qa.pc = "done"
      /\ qa.result.kind = "dict"
      /\ Unsatisfactory(qa.result.result)
      /\ ~(qa.ret.msg = "answer" /\ qa.ret.from \in {"repair", "direct"}) )
    => qa.ret.msg = "not_found"

----------------------------------------------------------------------------
(* Ingestion of documents *)

\* C9: in the upload flow the value process_pdf_file returns unpacks as
\* (triples, domain, summary) for every document, whatever the number of
\* extracted triples and on the failure paths: the unpacking does not raise
\* and what is collected for the document is its extracted triples
C9_ReturnShape ==
    ingest.op = "upload" =>
        \A i \in 1..Len(ingest.files) :
            /\ ~ingest.steps[i].raised
            /\ ingest.steps[i].added = process_pdf_file(ingest.files[i])

\* every item of ts is an item of all
Includes(all, ts) ==
    \A k \in 1..Len(ts) : \E m \in 1..Len(all) : all[m] = ts[k]

\* C10: when a document of a batch fails (short text or exception), every
\* other document is still processed and its extracted triples are among
\* the triples the batch writes
C10_IndependentDocuments ==
    ingest.op \in {"upload", "main"} =>
        \A i, j \in 1..Len(ingest.files) :
            (i # j /\ ingest.files[i].kind # "text") =>
                Includes(ingest.all_triples, process_pdf_file(ingest.files[j]))

----------------------------------------------------------------------------
(* The query rewrite *)

\* C11: fix_cypher_query applied to an already-correct query (every node
\* pattern labelled :Entity, every relationship pattern typed :RELATION)
\* returns the identical text, whatever else the query holds
C11_FixKeepsCorrectQuery ==
    (call.op = "fix_cypher_query" /\ AlreadyCorrect(call.form)) =>
        call.result = call.query

----------------------------------------------------------------------------
(* The direct fallback *)

\* the question matches none of the patterns of try_direct_query
MatchesNoPattern(q) ==
    /\ ~(Contains(lower(q), s_interact) /\ interact_entity(q) # None)
    /\ ~( /\ \E kw \in AboutPhrases : Contains(lower(q), kw)
          /\ about_entity(lower(q)) # None )
    /\ \A i \in 1..Len(potential_entities(q)) : Len(potential_entities(q)[i]) <= 2

\* C12: for a question that matches none of the fallback patterns, on an
\* empty store, try_direct_query returns None after at most 4 store calls
C12_FallbackTerminates ==
    (qa.returned.site # 0 /\ MatchesNoPattern(qa.question) /\ nodes = EmptyBag)
        => (~qa.returned.answered /\ qa.returned.queries <= 4)

\* C12 witness: try_direct_query has returned None for such a question on
\* an empty store
C12_Witness ==
    /\ qa.returned.site # 0 /\ MatchesNoPattern(qa.question)
    /\ nodes = EmptyBag /\ edges = EmptyBag
    /\ ~qa.returned.answered

----------------------------------------------------------------------------
(* The extractor *)

\* C13: given text below the minimum length (process_pdf_file: stripped
\* text shorter than 100 characters; extract_triples: chunk shorter than 50)
\* the extractor returns an empty result and makes no model call, neither
\* for domain detection nor for extraction
C13_ShortInputNoModelCall ==
    /\ (call.op = "process_pdf_file" /\ StrippedLen(call.text) < 100) =>
           (call.ret = <<>> /\ call.calls = 0)
    /\ (call.op = "extract_triples" /\ StrippedLen(call.text) < 50) =>
           (call.ret = <<>> /\ call.calls = 0)

\* C13 witness: process_pdf_file has returned for a text of 99 characters
\* while the model was ready to answer with triples
C13_Witness ==
    /\ call.op = "process_pdf_file" /\ call.llm = "triples"
    /\ call.text.len = 99 /\ StrippedLen(call.text) = 99
    /\ call.ret = <<>>

----------------------------------------------------------------------------
(* The TTL sweep *)

\* C14: the TTL sweep run at session start with hours = 24 deletes exactly
\* the nodes (and their relations) older than the threshold, keeps every
\* younger one, and returns the number deleted
C14_SweepDeletesOld ==
    call.op = "app_start" =>
        /\ BagToSet(nodes) = { n \in DOMAIN call.age : call.age[n] <= 24 }
        /\ \A e \in BagToSet(edges) : BagIn(e.src, nodes) /\ BagIn(e.dst, nodes)
        /\ call.deleted = Cardinality({ n \in DOMAIN call.age : call.age[n] > 24 })

(* C15: whenever get_graph_stats is called while the store is unreachable, it
   does not raise and returns 0 nodes, 0 relationships and no relation types. *)
C15_StatsDegradeToZero ==
    (last.op = "get_graph_stats" /\ ~storeUp) =>
        /\ ~last.raised
        /\ last.stats.nodes = 0
        /\ last.stats.relationships = 0
        /\ last.stats.relation_types = {}

(* C16: when a store query of a query_graph call (the node count, the run of
   the rewritten query, or a query of try_direct_query) failed because the
   store was unreachable, the call returns the error outcome, never an answer
   or the not-found message. *)
C16_ConnectivitySurfaced ==
    (qa.pc = "done" /\ qa.unreachable) => qa.ret.msg = "error"

----------------------------------------------------------------------------
(* Ingestion of nothing *)

\* C17: populate_neo4j on a file holding an empty list returns success False
\* and count 0, and an upload whose documents gave no triple is not saved;
\* neither step changes the store
C17_EmptyIsNonSuccess ==
    [][ /\ (/\ last'.op = "populate_neo4j"
            /\ last'.exists
            /\ last'.data = <<>>)
           => (/\ ~last'.success
               /\ last'.count = 0
               /\ nodes' = nodes /\ edges' = edges)
        /\ (/\ last'.op = "upload"
            /\ ingest'.all_triples = <<>>)
           => (/\ ~ingest'.saved
               /\ nodes' = nodes /\ edges' = edges) ]_vars

\* an upload gave no triple, then an empty file was imported into a
\* reachable store that holds data
C17_Witness ==
    /\ ingest.op = "upload" /\ ingest.all_triples = <<>>
    /\ last.op = "populate_neo4j" /\ last.exists /\ last.up
    /\ last.data = <<>> /\ ~last.success
    /\ nodes # EmptyBag

----------------------------------------------------------------------------
(* Identity of entities and relationships *)

\* the names occurring as a head or a tail in the triple list
NamesOf(data) ==
    { data[i].head : i \in 1..Len(data) } \cup { data[i].tail : i \in 1..Len(data) }

\* the edges the distinct (head, relation, tail) of the list denote in sid
EdgesOf(data, sid) ==
    { Edge(Node(data[i].head, sid), Node(data[i].tail, sid),
           data[i].relation, sid) : i \in 1..Len(data) }

\* C18: a successful populate_neo4j of list T into a session that held no
\* node leaves that session with exactly one Entity per distinct name of T
\* and exactly one RELATION edge per distinct (head, relation, tail) of T,
\* and leaves the entities of every other session as they were
C18_OnePerIdentity ==
    [][ (/\ last'.op = "populate_neo4j"
         /\ last'.success
         /\ get_graph_stats(Store, last'.session_id).nodes = 0)
        => LET sid == last'.session_id
               T   == last'.data
           IN  /\ \A n \in BagToSet(nodes') :
                     n.session_id = sid => (n.name \in NamesOf(T) /\ nodes'[n] = 1)
               /\ \A name \in NamesOf(T) : BagIn(Node(name, sid), nodes')
               /\ \A e \in BagToSet(edges') :
                     e.session_id = sid => (e \in EdgesOf(T, sid) /\ edges'[e] = 1)
               /\ \A e \in EdgesOf(T, sid) : BagIn(e, edges')
               /\ \A n \in BagToSet(nodes) \cup BagToSet(nodes') :
                     n.session_id # sid =>
                        CopiesIn(n, nodes') = CopiesIn(n, nodes) ]_vars

\* C18 witness: two triples differing only in relation have been ingested
\* into session A, which holds two entities and two edges, while session B
\* holds an entity of the same name
C18_Witness ==
    /\ last.op = "populate_neo4j" /\ last.success /\ last.session_id = "A"
    /\ last.changed /\ Len(last.data) = 2
    /\ last.data[1].head = last.data[2].head
    /\ last.data[1].tail = last.data[2].tail
    /\ last.data[1].relation # last.data[2].relation
    /\ get_graph_stats(Store, "A").nodes = 2
    /\ get_graph_stats(Store, "A").relationships = 2
    /\ BagIn(Node(last.data[1].head, "B"), nodes)

----------------------------------------------------------------------------
(* Malformed model output *)

\* C19: the response that holds the JSON array inside a code fence, with a
\* comma after the last element or after the last member of an object, is
\* parsed by extract_triples to exactly the triples the array denotes
C19_FencedTrailingCommaParses ==
    (call.op = "triples_from_response" /\ call.fenced /\ call.comma) =>
        call.ret = call.denoted

\* C19 witness: a fenced response of two triples with a trailing comma in
\* the array has been parsed to two triples
C19_Witness ==
    /\ call.op = "triples_from_response" /\ call.fenced /\ call.comma
    /\ Contains(call.content, <<",", "\n", "]">>)
    /\ Len(call.denoted) = 2 /\ Len(call.ret) = 2

----------------------------------------------------------------------------
(* Clearing the whole store *)

\* C20: clear_database() without a session id, run on a reachable store,
\* returns True and leaves no node of any session, so that get_graph_stats()
\* counts 0 nodes
C20_ClearAllEmptiesStore ==
    (last.op = "clear_database" /\ ~Truthy(last.session_id) /\ storeUp) =>
        /\ last.ret
        /\ nodes = EmptyBag
        /\ get_graph_stats(Store, None).nodes = 0

\* C20 witness: the store held four entities, two of session A and two of
\* session B, when it was cleared without a session id
C20_Witness ==
    /\ last.op = "clear_database" /\ ~Truthy(last.session_id) /\ last.ret
    /\ last.before = 4
    /\ get_graph_stats(Store, None).nodes = 0

----------------------------------------------------------------------------
(* The fallback prompt of the extractor *)

\* C21: whenever an attempt of extract_triples gets a response that gives no
\* valid triple, the fallback prompt has been issued before the function
\* returns, whichever attempt that is
C21_FallbackOnParseFailure ==
    (/\ call.op = "extract_attempts"
     /\ call.raises < max_retries
     /\ triples_of(call.data) = <<>>)
        => call.ret.fallback

\* C26: every triple extract_triples returns, from the first prompt or from
\* the fallback prompt, has a head, a relation and a tail that are not empty
\* once trimmed
C26_NoEmptyField ==
    call.op = "extract_attempts" =>
        \A i \in 1..Len(call.ret.triples) :
            /\ strip(call.ret.triples[i].head) # <<>>
            /\ strip(call.ret.triples[i].relation) # <<>>
            /\ strip(call.ret.triples[i].tail) # <<>>

----------------------------------------------------------------------------
(* Rate limits while a question is answered *)

\* C22: a query_graph call whose chain invocations kept raising a rate-limit
\* error never ends with the rate-limit error result: once the retries are
\* used up it has gone through try_direct_query and returns what that gave
C22_QuotaDegradesToDirect ==
    qa.pc = "done" => qa.ret.msg # "rate_limit"

----------------------------------------------------------------------------
(* The validity check of the chain's answer *)

\* C23: once the chain has answered, query_graph is in the repair or the
\* direct-fallback path exactly when the answer is empty or holds one of the
\* six phrases; any other answer is returned as it is, with no rewritten
\* query run and no direct query made
C23_FallbackIffUnsatisfactory ==
    (qa.result.kind = "dict" /\ qa.pc \in {"repair", "direct", "done"}) =>
        IF Unsatisfactory(qa.result.result)
        THEN qa.pc \in {"repair", "direct"} \/ qa.repairs > 0 \/ qa.directs > 0
        ELSE /\ qa.pc = "done"
             /\ qa.ret.msg = "answer"
             /\ qa.ret.text = qa.result.result
             /\ qa.repairs = 0 /\ qa.directs = 0

----------------------------------------------------------------------------
(* The queries of the direct fallback *)

\* C24: with a session id, every query try_direct_query runs carries the
\* session predicate on both of its entities, binds the session id and the
\* entity text as parameters, holds neither of them in its text, and
\* returns rows of that session only
C24_DirectQueriesScoped ==
    (call.op = "try_direct_query" /\ Truthy(call.session_id)) =>
        \A i \in 1..Len(call.calls) :
            LET c == call.calls[i]
                t == DirectTemplate(c.query.kind)
            IN  /\ Contains(c.query.text, t.a \o <<".", "s", "e", "s", "s", "i", "o", "n", "_", "i", "d", " ", "=", " ", "$", "s", "e", "s", "s", "i", "o", "n", "_", "i", "d">>)
                /\ Contains(c.query.text, t.b \o <<".", "s", "e", "s", "s", "i", "o", "n", "_", "i", "d", " ", "=", " ", "$", "s", "e", "s", "s", "i", "o", "n", "_", "i", "d">>)
                /\ c.query.params.session_id = call.session_id
                /\ \E k \in 1..Len(direct_plan(call.question)) :
                      c.query.params.entity = direct_plan(call.question)[k].entity
                /\ ~Contains(c.query.text, c.query.params.entity)
                /\ ~Contains(c.query.text, <<"'">>)
                /\ \A r \in c.rows :
                      /\ r.n.session_id = call.session_id
                      /\ r.m.session_id = call.session_id

\* C24 witness: for a question in session A, asked while session B holds
\* data too, the exact interact query has found rows
C24_Witness ==
    /\ call.op = "try_direct_query" /\ call.session_id = "A"
    /\ Len(call.calls) = 1
    /\ call.calls[1].query.kind = "interact_exact"
    /\ call.calls[1].rows # {}
    /\ \E e \in BagToSet(edges) : e.session_id = "B"

----------------------------------------------------------------------------
(* Repair before direct fallback *)

\* C25: the rewritten query is run only when it differs from the generated
\* query; rows it returns end the call with an answer made from those rows;
\* and the direct fallback of the repair path starts only after the repair
\* gave no answer or there was no different query to run
C25_RepairThenDirect ==
    /\ qa.pc = "repair" =>
          (qa.fixed # qa.result.query /\ qa.fixed = fix_cypher_query(qa.result.query))
    /\ qa.repairs > 0 => fix_cypher_query(qa.result.query) # qa.result.query
    /\ (qa.pc = "done" /\ qa.ret.from = "repair") =>
          /\ qa.ret.msg = "answer"
          /\ qa.ret.rows # {}
          /\ qa.ret.rows = RunQuery(qa.fixed, Store, TRUE, None).rows
          /\ qa.directs = 0
    /\ (/\ qa.repairs = 1 /\ ~qa.unreachable
        /\ RunQuery(qa.fixed, Store, TRUE, None).rows # {}) =>
          (qa.pc = "done" /\ qa.ret.from = "repair")
    /\ (qa.directs > 0 /\ qa.site = 198) =>
          \/ qa.repairs = 1
          \/ fix_cypher_query(qa.result.query) = qa.result.query

----------------------------------------------------------------------------
(* One failing chunk *)

\* the triples of the chunks from k on whose extraction gave a triple
RECURSIVE GoodTriples(_, _)
GoodTriples(outs, k) ==
    IF k > Len(outs) THEN <<>>
    ELSE (IF outs[k] = "triples" THEN <<ChunkTriple(k)>> ELSE <<>>)
            \o GoodTriples(outs, k + 1)

\* C27: whatever fails while a chunk is extracted, process_pdf_file attempts
\* every chunk of the document and returns the triples of all the chunks
\* that gave some, in order
C27_ChunkFailureIsLocal ==
    call.op = "process_chunks" =>
        /\ call.ret.attempted = Len(call.outs)
        /\ call.ret.triples = GoodTriples(call.outs, 1)

\* C27 witness: the first chunk failed with rate-limit errors, an exception
\* escaped from a later one, and a chunk after a failure gave its triple
C27_Witness ==
    /\ call.op = "process_chunks" /\ Len(call.outs) = 3
    /\ call.outs[1] = "quota" /\ call.outs[2] = "exception"
    /\ call.outs[3] = "triples"
    /\ Len(call.ret.triples) = 1

----------------------------------------------------------------------------
(* Domain detection *)

----------------------------------------------------------------------------
(* One write per batch *)

\* C29: an upload makes at most one store write, and when its documents
\* yielded triples it makes exactly one, which carries the triples extracted
\* from all the documents of the batch
C29_OneWritePerBatch ==
    ingest.op = "upload" =>
        LET extracted ==
                Concat([ i \in 1..Len(ingest.files) |->
                           process_pdf_file(ingest.files[i]) ])
        IN  /\ ingest.writes <= 1
            /\ extracted # <<>> =>
                  /\ ingest.writes = 1
                  /\ ingest.all_triples = extracted

----------------------------------------------------------------------------
(* The deterministic formatter *)

\* the name of the entity a row connects to
ConnectedName(r) ==
    Or(Get(r, k_connected_entity),
       Or(Get(r, k_related_entity), Or(Get(r, k_connected_to), Get(r, k_entity2))))

\* the lists of up to 10 distinct connected-entity names of the rows
DistinctNameLists(results) ==
    LET names == { ConnectedName(results[i]) : i \in 1..Len(results) } \ {<<>>}
    IN  { l \in SeqsUpTo(names, Cardinality(names)) :
            /\ l # <<>>
            /\ Len(l) <= top_results
            /\ \A i, j \in 1..Len(l) : i # j => l[i] # l[j] }

\* t ends with the text p
EndsWith(t, p) == Len(p) <= Len(t) /\ StartsAt(t, Len(t) - Len(p) + 1, p)

\* C30: without a model, or when its call raises, the answer is the
\* formatter's text: for a single row 'Found: ' and its key=value pairs, for
\* several rows a text that lists up to 10 distinct connected-entity names
C30_FormatterFallback ==
    (/\ call.op = "generate_answer_from_results"
     /\ call.llm \in {"none", "raises"} /\ call.results # <<>>) =>
        /\ call.ret.kind = "formatter"
        /\ Len(call.results) = 1 =>
              call.ret.text = <<"F", "o", "u", "n", "d", ":", " ">> \o key_values(call.results[1])
        /\ Len(call.results) > 1 =>
              \E l \in DistinctNameLists(call.results) :
                  EndsWith(call.ret.text, <<" ">> \o Join(l, <<",", " ">>))

----------------------------------------------------------------------------
(* The no-result signal *)

\* C31: generate_answer_from_results returns None exactly when it is given
\* no rows, and then calls no model; given rows it returns a text whether
\* the model answers, raises or is absent
C31_NoneIffNoRows ==
    call.op = "generate_answer_from_results" =>
        /\ (call.ret.kind = "none") <=> (call.results = <<>>)
        /\ call.results = <<>> => call.ret.calls = 0
        /\ call.results # <<>> => call.ret.kind \in {"llm", "formatter"}
        /\ call.ret.calls <= 1

\* C31 witness: no rows and a model that would answer give None without a
\* call
C31_Witness ==
    /\ call.op = "generate_answer_from_results"
    /\ call.results = <<>> /\ call.llm = "answers"
    /\ call.ret.kind = "none" /\ call.ret.calls = 0

----------------------------------------------------------------------------
(* The order of the direct queries *)

\* the place of a query in the order of try_direct_query
QueryRank(kind) ==
    CASE kind = "interact_exact" -> 1
      [] kind = "interact_contains" -> 2
      [] kind = "about" -> 3
      [] OTHER -> 4

\* C32: the store queries of one try_direct_query call come in the order
\* interact exact, interact contains, what-is, generic; the contains query
\* directly follows an exact query for the same entity that found nothing;
\* at most three generic queries are made; no query follows one that found
\* rows; and there are at most 6 queries
C32_DirectOrder ==
    call.op = "try_direct_query" =>
        LET cs == call.calls
            kind(i) == cs[i].query.kind
        IN  /\ Len(cs) <= 6
            /\ \A i, j \in 1..Len(cs) :
                  i < j => /\ QueryRank(kind(i)) <= QueryRank(kind(j))
                           /\ QueryRank(kind(i)) < 4 => kind(i) # kind(j)
            /\ \A i \in 1..Len(cs) :
                  kind(i) = "interact_contains" =>
                      /\ i = 2 /\ kind(1) = "interact_exact"
                      /\ cs[1].rows = {}
                      /\ cs[1].query.params.entity = cs[2].query.params.entity
            /\ Cardinality({ i \in 1..Len(cs) : kind(i) = "generic" }) <= 3
            /\ \A i \in 1..(Len(cs) - 1) : cs[i].rows = {}
            /\ (Len(cs) > 0 /\ cs[Len(cs)].rows = {}) =>
                  Len(cs) = Len(direct_plan(call.question))
                      + Cardinality({ i \in 1..Len(cs) : kind(i) = "interact_exact" })

\* C32 witness: six queries, none of which found rows
C32_Witness ==
    /\ call.op = "try_direct_query" /\ call.question = q_all
    /\ Len(call.calls) = 6
    /\ call.calls[2].query.kind = "interact_contains"
    /\ call.calls[3].query.kind = "about"
    /\ \A i \in 4..6 : call.calls[i].query.kind = "generic"

----------------------------------------------------------------------------
(* Lazy initialisation under two sessions *)

\* C33: whatever the interleaving of two threads that call query_graph
\* while the globals are None, the graph connection, the model client and
\* the chain are each constructed once, and both threads use that chain
C33_InitialisedOnce ==
    call.op = "components" =>
        /\ call.built.graph <= 1
        /\ call.built.llm <= 1
        /\ call.built.cypher_chain <= 1
        /\ \A t \in Threads : call.pc[t] = "done" => call.used[t] = 1

----------------------------------------------------------------------------
(* The startup clear *)

----------------------------------------------------------------------------
(* The bounds of one question *)

\* the texts query_graph returns
ReturnKinds == {"answer", "empty_graph", "not_found", "rate_limit", "error"}

----------------------------------------------------------------------------
(* The bounds of one chunk *)

\* C36: extract_triples on a chunk makes at most 3 primary calls and at
\* most 1 fallback call, sleeps 5 s then 10 s after rate-limit errors and
\* 2 s after other errors, at most twice, and returns a triple list, which
\* is empty when the third attempt raised
C36_BoundedExtraction ==
    call.op = "extract_attempts" =>
        LET r == call.ret
            primary == r.calls - (IF r.fallback THEN 1 ELSE 0)
        IN  /\ primary \in 1..3
            /\ r.calls <= 4
            /\ Len(r.delays) <= 2
            /\ Len(r.delays) = primary - 1
            /\ \A i \in 1..Len(r.delays) :
                  r.delays[i] = IF call.error = "quota"
                                THEN (IF i = 1 THEN 5 ELSE 10) ELSE 2
            /\ r.triples \in Seq([head : Seq(STRING), relation : Seq(STRING),
                                  tail : Seq(STRING)])
            /\ call.raises >= 3 =>
                  (r.triples = <<>> /\ r.calls = 3 /\ ~r.fallback)

\* C36 witness: three rate-limit errors, sleeps of 5 and 10 seconds, three
\* calls and the empty list
C36_Witness ==
    /\ call.op = "extract_attempts"
    /\ call.raises = 3 /\ call.error = "quota"
    /\ call.ret.calls = 3 /\ call.ret.delays = <<5, 10>>
    /\ call.ret.triples = <<>>

----------------------------------------------------------------------------
(* The variables of the rewritten query *)

\* C37: for every node pattern (v {name: 'X'}) of the input, the rewritten
\* query holds the pattern (v:Entity {name: ...}) with the same variable v
C37_VariablesPreserved ==
    call.op = "fixed_text" =>
        \A i \in 1..Len(call.vars) :
            Contains(call.result,
                     <<"(">> \o call.vars[i] \o <<":", "E", "n", "t", "i", "t", "y", " ", "{", "n", "a", "m", "e", ":", " ">>)

----------------------------------------------------------------------------
(* The rewrite applied twice *)

\* C38: fix_cypher_query(fix_cypher_query(q)) = fix_cypher_query(q) for every
\* query text q, and an empty or None query is returned unchanged
C38_Idempotent ==
    /\ call.op = "fixed_twice" => call.again = call.result
    /\ call.op \in {"fixed_text", "fixed_twice"} /\ ~NonEmpty(call.query)
           => call.result = call.query

\* a query with two bare node patterns and an untyped relationship has been
\* rewritten, and rewriting the result changed nothing
C38_Witness ==
    /\ call.op = "fixed_twice"
    /\ Len(call.vars) = 2
    /\ call.result # call.query
    /\ call.again = call.result

----------------------------------------------------------------------------
(* The empty session and the chain *)

\* the entities the store holds for the session of the running call
SessionEntities ==
    BagCount(nodes, { n \in BagToSet(nodes) : n.session_id = qa.session_id })

\* C39: while query_graph runs for a session that holds zero entities the
\* chain is never invoked and the call returns the empty-graph message; a
\* call for a session that holds an entity invokes the chain before it returns
C39_EmptySessionSkipsChain ==
    /\ qa.pc # "idle" /\ SessionEntities = 0
           => /\ qa.invokes = 0
              /\ qa.pc = "done" => qa.ret.msg = "empty_graph"
    /\ qa.pc = "done" /\ SessionEntities > 0 => qa.invokes >= 1

====
